---------------------------- MODULE Spec2Model ----------------------------
(***************************************************************************)
(* The upsert mutation of postgraphile-upsert: conflict-target resolution, *)
(* column/value reconciliation, statement construction and execution.      *)
(*                                                                         *)
(* Two implementations of the resolve pipeline live in the repository:     *)
(*   "part" : src/unnamed/part_000            (createUpsertField.resolve)  *)
(*   "ts"   : src/src/postgraphile-upsert.ts  (PgMutationUpsertPlugin)     *)
(* The variable impl says which of the two serves the requests.            *)
(***************************************************************************)
EXTENDS Integers, Sequences, FiniteSets, TLC

VARIABLES
    table,      \* the catalog snapshot of the relation (immutable)
    impl,       \* "part" or "ts": the implementation deployed
    reqs,       \* per request slot: position, arguments, plan, outcome
    rows,       \* the relation's stored rows
    nextId,     \* the serial sequence behind the id column
    calls,      \* number of resolve() invocations so far
    schema      \* the schema build: its hooks' position and their results

vars == <<table, impl, reqs, rows, nextId, calls, schema>>

-----------------------------------------------------------------------------
(* Bounds *)

\* scalar values a request may carry are 0..MaxVal
MaxVal == 1
\* resolve() invocations per behaviour of the multi-request specification
MaxCalls == 2
\* request slots (requests that may be in flight together)
NumSlots == 2

Values == 0..MaxVal
Slots == 1..NumSlots
Impls == {"part", "ts"}

-----------------------------------------------------------------------------
(* Small helpers *)

Min(S) == CHOOSE x \in S : \A y \in S : x <= y

\* the value of a failed Array.prototype.find / of a missing property
Undefined == [undefined |-> TRUE]

\* an object without own keys
EmptyObject == [k \in {} |-> 0]

Range(s) == {s[i] : i \in 1..Len(s)}

Append2(s, e) == s \o <<e>>

-----------------------------------------------------------------------------
(* Inflection (graphile-build), on the column names of the catalogs below *)

camelCase(name) ==
    CASE name = "id" -> "id"
      [] name = "serial_number" -> "serialNumber"
      [] name = "weight" -> "weight"
      [] name = "make" -> "make"
      [] name = "trim" -> "trim"
      [] name = "active" -> "active"

\* inflection.column(attr): the field name of a column in the input type
column(attr) == camelCase(attr.name)

\* inflection.upsertIgnoreColumnEnum(attr) = constantCase(columnName)
upsertIgnoreColumnEnum(attr) ==
    CASE attr.name = "id" -> "ID"
      [] attr.name = "serial_number" -> "SERIAL_NUMBER"
      [] attr.name = "weight" -> "WEIGHT"
      [] attr.name = "make" -> "MAKE"
      [] attr.name = "trim" -> "TRIM"
      [] attr.name = "active" -> "ACTIVE"

\* pgOmit(entity, capability): the entity's smart comment omits it
omit(attr, capability) ==
    CASE capability = "update" -> attr.omitUpdate
      [] capability = "updateOnConflict" -> attr.omitUpdateOnConflict
      [] capability = "upsert" -> attr.omitUpsert
      [] capability = "read" -> attr.omitRead

-----------------------------------------------------------------------------
(* Catalog snapshots (pgIntrospectionResultsByKind, filtered to one class) *)

Serial == [kind |-> "serial"]
NoDefault == [kind |-> "null"]
\* a column default that is a constant: default 'standard'
Default(v) == [kind |-> "value", value |-> v]

Attr(name, num, omitUpdate, omitUpdateOnConflict, default, omitRead) ==
    [name |-> name, num |-> num, omitUpdate |-> omitUpdate,
     omitUpdateOnConflict |-> omitUpdateOnConflict, default |-> default,
     omitRead |-> omitRead]

Con(name, type, keyAttributeNums) ==
    [name |-> name, type |-> type, keyAttributeNums |-> keyAttributeNums]

PlainAttributes ==
    << Attr("id", 1, FALSE, FALSE, Serial, FALSE),
       Attr("serial_number", 2, FALSE, FALSE, NoDefault, FALSE),
       Attr("weight", 3, FALSE, FALSE, NoDefault, FALSE) >>

\* weight carries "@omit updateOnConflict" (as roles.rank in the tests)
OmitAttributes ==
    << Attr("id", 1, FALSE, FALSE, Serial, FALSE),
       Attr("serial_number", 2, FALSE, FALSE, NoDefault, FALSE),
       Attr("weight", 3, FALSE, TRUE, NoDefault, FALSE) >>

\* weight carries "@omit update", serial_number "@omit updateOnConflict"
ReadOnlyAttributes ==
    << Attr("id", 1, FALSE, FALSE, Serial, FALSE),
       Attr("serial_number", 2, FALSE, TRUE, NoDefault, FALSE),
       Attr("weight", 3, TRUE, FALSE, NoDefault, FALSE) >>

Pkey == Con("bikes_pkey", "p", <<1>>)
SerialWeightUnique == Con("serial_weight_unique", "u", <<2, 3>>)
SerialKey == Con("bikes_serial_number_key", "u", <<2>>)

Relation(attributes, constraints) ==
    [namespace |-> "public", name |-> "bikes",
     attributes |-> attributes, constraints |-> constraints]

\* create table bikes (... primary key (id),
\*   constraint serial_weight_unique unique (serial_number, weight))
Bikes == Relation(PlainAttributes, <<Pkey, SerialWeightUnique>>)
\* the same relation with the unique constraint listed first
BikesUniqueFirst == Relation(PlainAttributes, <<SerialWeightUnique, Pkey>>)
\* two unique constraints that one set of columns can cover together
Overlap == Relation(PlainAttributes, <<SerialWeightUnique, SerialKey, Pkey>>)
OverlapNarrowFirst == Relation(PlainAttributes, <<Pkey, SerialKey, SerialWeightUnique>>)
\* a single-column unique constraint next to a plain column
Models == Relation(PlainAttributes, <<Pkey, SerialKey>>)
\* a column that omits updateOnConflict (roles.rank)
Roles == Relation(OmitAttributes, <<Pkey, SerialKey>>)
\* columns that omit update / updateOnConflict, among them a key column
ReadOnly == Relation(ReadOnlyAttributes, <<SerialKey, Pkey>>)
\* broken snapshots: a constraint names attribute number 9, which no
\* attribute of the relation has
Broken == Relation(PlainAttributes, <<Pkey, Con("serial_weight_unique", "u", <<2, 9>>)>>)
BrokenFirst == Relation(PlainAttributes, <<Con("serial_weight_unique", "u", <<9, 2>>), Pkey>>)

\* the bikes columns of which the given ones carry "@omit read"
UnreadableAttributes(names) ==
    << Attr("id", 1, FALSE, FALSE, Serial, "id" \in names),
       Attr("serial_number", 2, FALSE, FALSE, NoDefault, "serial_number" \in names),
       Attr("weight", 3, FALSE, FALSE, NoDefault, "weight" \in names) >>

\* the orders in which the primary key and any of the two unique
\* constraints can be listed
ConstraintOrders ==
    {<<Pkey>>,
     <<Pkey, SerialKey>>, <<SerialKey, Pkey>>,
     <<Pkey, SerialWeightUnique>>, <<SerialWeightUnique, Pkey>>,
     <<Pkey, SerialKey, SerialWeightUnique>>, <<Pkey, SerialWeightUnique, SerialKey>>,
     <<SerialKey, Pkey, SerialWeightUnique>>, <<SerialWeightUnique, Pkey, SerialKey>>,
     <<SerialKey, SerialWeightUnique, Pkey>>, <<SerialWeightUnique, SerialKey, Pkey>>}

\* bikes with any of serial_number and weight unreadable, the constraints
\* in any order
ReadCatalogs ==
    {Relation(UnreadableAttributes(names), constraints) :
        names \in SUBSET {"serial_number", "weight"},
        constraints \in ConstraintOrders}

\* create table car (id serial primary key, make text not null, model text
\* not null, trim text not null default 'standard', active boolean,
\* unique (make, model, trim)); model plays the part make plays and is left
\* out; trim 'standard' is 0, 'non-standard' is 1
Standard == Default(0)

CarAttributes ==
    << Attr("id", 1, FALSE, FALSE, Serial, FALSE),
       Attr("make", 2, FALSE, FALSE, NoDefault, FALSE),
       Attr("trim", 3, FALSE, FALSE, Standard, FALSE),
       Attr("active", 4, FALSE, FALSE, NoDefault, FALSE) >>

CarPkey == Con("car_pkey", "p", <<1>>)
CarUnique == Con("car_make_model_trim_key", "u", <<2, 3>>)

Car ==
    [namespace |-> "public", name |-> "car",
     attributes |-> CarAttributes, constraints |-> <<CarPkey, CarUnique>>]
\* the same relation with the unique constraint listed first
CarUniqueFirst ==
    [namespace |-> "public", name |-> "car",
     attributes |-> CarAttributes, constraints |-> <<CarUnique, CarPkey>>]

CarCatalogs == {Car, CarUniqueFirst}

Catalogs == {Bikes, BikesUniqueFirst, Overlap, OverlapNarrowFirst, Models,
             Roles, ReadOnly, Broken, BrokenFirst}

\* the relations on which the multi-request specification runs
StoredCatalogs == {Bikes, Models, Roles}

\* attributes.find((attr) => attr.num === num)
findAttribute(attributes, num) ==
    LET hits == {i \in 1..Len(attributes) : attributes[i].num = num}
    IN  IF hits = {} THEN Undefined ELSE attributes[Min(hits)]

\* uniqueConstraints.find((con) => con.type === "p"): its index, 0 if none
primaryKeyConstraint(uniqueConstraints) ==
    LET hits == {i \in 1..Len(uniqueConstraints) : uniqueConstraints[i].type = "p"}
    IN  IF hits = {} THEN 0 ELSE Min(hits)

\* every member position of every constraint resolves to an attribute
Consistent(tbl) ==
    \A i \in 1..Len(tbl.constraints) :
        \A j \in 1..Len(tbl.constraints[i].keyAttributeNums) :
            findAttribute(tbl.attributes, tbl.constraints[i].keyAttributeNums[j]) # Undefined

-----------------------------------------------------------------------------
(* Conflict target resolution, src/unnamed/part_000 *)

\* { [constraint.name]: new Set(keyAttributeNums.map(find + assert)) }, as
\* the entries Object.entries() yields: one per constraint, in the order the
\* constraints are listed (constraint names are distinct and are not
\* array-index strings)
columnsByConstraintName(tbl) ==
    [i \in 1..Len(tbl.constraints) |->
        [name |-> tbl.constraints[i].name,
         columns |-> [j \in 1..Len(tbl.constraints[i].keyAttributeNums) |->
                        findAttribute(tbl.attributes,
                                      tbl.constraints[i].keyAttributeNums[j])]]]

\* assert(match, `no attribute found for ${num}`) fails for some constraint
assertionFails(tbl) ==
    \E i \in 1..Len(tbl.constraints) :
        Undefined \in Range(columnsByConstraintName(tbl)[i].columns)

\* faulty variant of everyColumnIn: some for every, one member column among
\* the keys is enough
someColumnIn(columns, keys) ==
    \E j \in 1..Len(columns) : camelCase(columns[j].name) \in keys

\* [...columns].every((col) => inflection.camelCase(col.name) in keys)
everyColumnIn(columns, keys) ==
    \A j \in 1..Len(columns) : camelCase(columns[j].name) \in keys

\* faulty variant of findCovered: the last covered entry, not the first
findCoveredLast(entries, keys) ==
    LET hits == {i \in 1..Len(entries) : everyColumnIn(entries[i].columns, keys)}
    IN  IF hits = {} THEN 0 ELSE CHOOSE i \in hits : \A k \in hits : k <= i

\* Object.entries(columnsByConstraintName).find(([, columns]) => every...):
\* the index of the entry found, 0 for undefined
findCovered(entries, keys) ==
    LET hits == {i \in 1..Len(entries) : everyColumnIn(entries[i].columns, keys)}
    IN  IF hits = {} THEN 0 ELSE Min(hits)

\* faulty variant of findPrimary: no primary-key fallback
findPrimaryNever(entries, uniqueConstraints) == 0

\* Object.entries(...).find(([key]) => key === primaryKeyConstraint?.name)
findPrimary(entries, uniqueConstraints) ==
    LET pk == primaryKeyConstraint(uniqueConstraints)
        hits == {i \in 1..Len(entries) :
                    pk # 0 /\ entries[i].name = uniqueConstraints[pk].name}
    IN  IF hits = {} THEN 0 ELSE Min(hits)

\* faulty variant of matchingConstraint, as if the expression were grouped
\* (where ? ... : ...) ?? find(primary): a where that covers nothing falls
\* back to the primary key
matchingConstraintFallback(tbl, req) ==
    LET entries == columnsByConstraintName(tbl)
        byKeys == findCovered(entries, IF req.hasWhere THEN DOMAIN req.where
                                       ELSE DOMAIN req.input)
    IN  IF byKeys # 0 THEN byKeys ELSE findPrimary(entries, tbl.constraints)

\* where ? find(covered by where) : find(covered by input) ?? find(primary)
matchingConstraint(tbl, req) ==
    LET entries == columnsByConstraintName(tbl)
        inputDataKeys == DOMAIN req.input
    IN  IF req.hasWhere
        THEN findCovered(entries, DOMAIN req.where)
        ELSE IF findCovered(entries, inputDataKeys) # 0
             THEN findCovered(entries, inputDataKeys)
             ELSE findPrimary(entries, tbl.constraints)

\* omit(attr, "update") || omit(attr, "updateOnConflict") ||
\* ignoreArg.has(inflection.upsertIgnoreColumnEnum(attr))
ignoreUpdateAdds(attr, req) ==
    \/ omit(attr, "update")
    \/ omit(attr, "updateOnConflict")
    \/ upsertIgnoreColumnEnum(attr) \in req.ignore

-----------------------------------------------------------------------------
(* Conflict target resolution, src/src/postgraphile-upsert.ts *)

\* the name of the mutation field: `upsert${tableTypeName}`
upsertFieldName == "upsertBike"

\* new Set(attributes.filter((attr) => { if (hasOwnProperty(inputData,
\* fieldName)) return attr.name })): fieldName is the mutation field's name
\* here, and filter keeps the attribute objects, not the returned names
upsertedColumns(tbl, req) ==
    {<<"Attribute", tbl.attributes[i].num>> :
        i \in {k \in 1..Len(tbl.attributes) : upsertFieldName \in DOMAIN req.input}}

\* { [constraint.name]: new Set(keyAttributeNums.map(find)) }: no assert,
\* a missing attribute stays in the set as undefined
constraintColumns(tbl) ==
    [i \in 1..Len(tbl.constraints) |->
        [name |-> tbl.constraints[i].name,
         columns |-> [j \in 1..Len(tbl.constraints[i].keyAttributeNums) |->
                        findAttribute(tbl.attributes,
                                      tbl.constraints[i].keyAttributeNums[j])]]]

\* [...columns].every(test) from element j on: "true", "false", or "throw"
\* when it reaches an undefined element (col.name is a TypeError)
RECURSIVE tsEvery(_, _, _, _)
tsEvery(columns, j, req, upserted) ==
    IF j > Len(columns) THEN "true"
    ELSE IF columns[j] = Undefined THEN "throw"
    ELSE IF (IF req.hasWhere
             \* where[inflection.camelCase(col.name)] !== undefined
             THEN camelCase(columns[j].name) \in DOMAIN req.where
             \* upsertedColumns.has(col.name)
             ELSE <<"string", columns[j].name>> \in upserted)
         THEN tsEvery(columns, j + 1, req, upserted)
         ELSE "false"

\* Object.entries(constraintColumns).find(...) from entry i on: the index
\* found, 0 for undefined, -1 when the test throws
RECURSIVE tsFind(_, _, _, _)
tsFind(entries, i, req, upserted) ==
    IF i > Len(entries) THEN 0
    ELSE LET r == tsEvery(entries[i].columns, 1, req, upserted)
         IN  IF r = "throw" THEN -1
             ELSE IF r = "true" THEN i
             ELSE tsFind(entries, i + 1, req, upserted)

\* where ? find(...) : find(...) ?? find(([key]) => key === primaryKeyConstraint.name)
tsMatchingConstraint(tbl, req) ==
    LET entries == constraintColumns(tbl)
        found == tsFind(entries, 1, req, upsertedColumns(tbl, req))
    IN  IF req.hasWhere THEN found
        ELSE IF found # 0 THEN found
        ELSE IF primaryKeyConstraint(tbl.constraints) = 0 THEN -1
        ELSE findPrimary(entries, tbl.constraints)

\* ignoreUpdate[attr.name] = omit(attr, "updateOnConflict"), overwritten by
\* ignore[camelCase(attr.name)] when ignore has that key; the column is
\* left out of the update when the entry == true
tsIgnoreUpdate(attr, req) ==
    IF camelCase(attr.name) \in DOMAIN req.ignoreFlags
    THEN req.ignoreFlags[camelCase(attr.name)]
    ELSE omit(attr, "updateOnConflict")

-----------------------------------------------------------------------------
(* Column/value reconciliation and statement construction (the two files   *)
(* agree on this code except for the ignoreUpdate bookkeeping)             *)

\* sql.identifier(attr.name)
identifier(name) == [names |-> <<name>>]

\* faulty variant of gql2pg: the value is spliced into the statement as raw
\* text (sql.raw / string interpolation)
gql2pgRaw(val, attr) == [param |-> val, raw |-> TRUE]

\* gql2pg(val, attr.type, attr.typeModifier): a bound parameter, never text
gql2pg(val, attr) == [param |-> val]

\* what the loop over the attributes has collected so far
NoColumns ==
    [error |-> "none", errorField |-> "", sqlColumns |-> <<>>,
     sqlValues |-> <<>>, ignoreUpdate |-> {}]

\* whether the loop records attr in ignoreUpdate
ignoresUpdate(im, attr, req) ==
    IF im = "part" THEN ignoreUpdateAdds(attr, req) ELSE tsIgnoreUpdate(attr, req)

\* faulty variant of valueMismatch: the where value silently wins
valueMismatchNever(attr, req) == FALSE

\* hasWhereClauseValue && whereClauseValue !== val
valueMismatch(attr, req) ==
    /\ req.hasWhere
    /\ camelCase(attr.name) \in DOMAIN req.where
    /\ req.where[camelCase(attr.name)] # req.input[column(attr)]

\* faulty variant of pushColumn: a column excluded from the conflict update
\* is not inserted either
pushColumnUnlessIgnored(acc, attr, val) ==
    IF attr.name \in acc.ignoreUpdate THEN acc
    ELSE [acc EXCEPT !.sqlColumns = Append(@, identifier(attr.name)),
                     !.sqlValues = Append(@, gql2pg(val, attr))]

\* faulty variant of pushColumn: a column that has a default is left to the
\* database
pushColumnSkipDefaulted(acc, attr, val) ==
    IF attr.default.kind = "value" THEN acc
    ELSE [acc EXCEPT !.sqlColumns = Append(@, identifier(attr.name)),
                     !.sqlValues = Append(@, gql2pg(val, attr))]

\* faulty variant of pushColumn: unshift for push, the list comes out in
\* reverse
pushColumnFront(acc, attr, val) ==
    [acc EXCEPT !.sqlColumns = <<identifier(attr.name)>> \o @,
                !.sqlValues = <<gql2pg(val, attr)>> \o @]

\* sqlColumns.push(sql.identifier(attr.name));
\* sqlValues.push(gql2pg(val, attr.type, attr.typeModifier))
pushColumn(acc, attr, val) ==
    [acc EXCEPT !.sqlColumns = Append(@, identifier(attr.name)),
                !.sqlValues = Append(@, gql2pg(val, attr))]

\* faulty variant of promoteWhereValue: a where value the input omits is
\* not inserted
promoteWhereValueDropped(acc, attr, req) == acc

\* faulty variant of promoteWhereValue: the where value is tested for
\* truthiness, a zero is taken for no value
promoteWhereValueIfTruthy(acc, attr, req) ==
    IF req.where[camelCase(attr.name)] = 0 THEN acc
    ELSE [acc EXCEPT !.sqlColumns = Append(@, identifier(attr.name)),
                     !.sqlValues = Append(@, gql2pg(req.where[camelCase(attr.name)], attr))]

\* else if (hasWhereClauseValue) { sqlColumns.push(...);
\* sqlValues.push(gql2pg(whereClauseValue, ...)) }
promoteWhereValue(acc, attr, req) ==
    pushColumn(acc, attr, req.where[camelCase(attr.name)])

\* attributes.forEach((attr) => { ... }) from attribute i on; a throw ends
\* the loop with error "ValueMismatch"
RECURSIVE sqlify(_, _, _, _, _)
sqlify(im, attributes, req, i, acc) ==
    IF i > Len(attributes) THEN acc
    ELSE
      LET attr == attributes[i]
          hasWhereClauseValue ==
              req.hasWhere /\ camelCase(attr.name) \in DOMAIN req.where
          marked ==
              [acc EXCEPT !.ignoreUpdate =
                  IF ignoresUpdate(im, attr, req) THEN @ \cup {attr.name} ELSE @]
          fieldName == column(attr)
      IN  IF fieldName \in DOMAIN req.input
          THEN IF valueMismatch(attr, req)
               THEN [marked EXCEPT !.error = "ValueMismatch",
                                   !.errorField = fieldName]
               ELSE sqlify(im, attributes, req, i + 1,
                           pushColumn(marked, attr, req.input[fieldName]))
          ELSE IF hasWhereClauseValue
          THEN sqlify(im, attributes, req, i + 1,
                      promoteWhereValue(marked, attr, req))
          ELSE sqlify(im, attributes, req, i + 1, marked)

\* faulty variant of conflictUpdateArray: the filter without its negation
conflictUpdateArrayInverted(sqlColumns, ignoreUpdate) ==
    LET kept == SelectSeq(sqlColumns, LAMBDA col : col.names[1] \in ignoreUpdate)
    IN  [k \in 1..Len(kept) |->
            [column |-> kept[k], excluded |-> kept[k]]]

\* sqlColumns.filter((col) => !ignoreUpdate.has(col.names[0])).map(
\*   (col) => sql.query`${col} = excluded.${col}`)
conflictUpdateArray(sqlColumns, ignoreUpdate) ==
    LET kept == SelectSeq(sqlColumns, LAMBDA col : col.names[1] \notin ignoreUpdate)
    IN  [k \in 1..Len(kept) |->
            [column |-> kept[k], excluded |-> kept[k]]]

\* faulty variant of mutationQuery: no test of sqlColumns.length, the column
\* form is emitted for an empty list too
mutationQueryAlwaysValues(tbl, constraintName, sqlColumns, sqlValues, updates) ==
    [into |-> <<tbl.namespace, tbl.name>>, form |-> "values",
     columns |-> sqlColumns, values |-> sqlValues,
     onConflictOnConstraint |-> <<constraintName>>,
     action |-> "do update set", set |-> updates, returning |-> "*"]

\* sql.query`insert into ${table} ${sqlColumns.length ? sql.fragment`(...)
\* values (...) on conflict on constraint ${constraintName} do update set
\* ${sql.join(conflictUpdateArray, ", ")}` : sql.fragment`default values`}
\* returning *`
mutationQuery(tbl, constraintName, sqlColumns, sqlValues, updates) ==
    IF Len(sqlColumns) # 0
    THEN [into |-> <<tbl.namespace, tbl.name>>, form |-> "values",
          columns |-> sqlColumns, values |-> sqlValues,
          onConflictOnConstraint |-> <<constraintName>>,
          action |-> "do update set", set |-> updates, returning |-> "*"]
    ELSE [into |-> <<tbl.namespace, tbl.name>>, form |-> "default values",
          columns |-> <<>>, values |-> <<>>,
          onConflictOnConstraint |-> <<>>,
          action |-> "", set |-> <<>>, returning |-> "*"]

\* the pieces of the statement text: a keyword, a quoted identifier, the
\* placeholder of the k-th parameter, or raw text made from a value
Keyword(w) == [keyword |-> w]
Quoted(names) == [quoted |-> names]
Placeholder(k) == [placeholder |-> k]
RawText(v) == [rawText |-> v]

\* what the sql template tag makes of the query for the database: the text,
\* with identifiers quoted and a placeholder for each value node, and the
\* ordered parameter list
compile(query) ==
    LET bound == SelectSeq(query.values, LAMBDA node : "raw" \notin DOMAIN node)
        \* the number of bound values among the first k value nodes
        position(k) == Len(SelectSeq(SubSeq(query.values, 1, k),
                                     LAMBDA node : "raw" \notin DOMAIN node))
        valueTokens == [k \in 1..Len(query.values) |->
                          IF "raw" \in DOMAIN query.values[k]
                          THEN RawText(query.values[k].param)
                          ELSE Placeholder(position(k))]
        columnTokens == [k \in 1..Len(query.columns) |-> Quoted(query.columns[k].names)]
        \* col = excluded.col: three pieces for each assignment
        setTokens == [j \in 1..(3 * Len(query.set)) |->
                        LET assignment == query.set[((j - 1) \div 3) + 1]
                        IN  CASE (j - 1) % 3 = 0 -> Quoted(assignment.column.names)
                              [] (j - 1) % 3 = 1 -> Keyword("= excluded.")
                              [] (j - 1) % 3 = 2 -> Quoted(assignment.excluded.names)]
    IN  [text |->
            IF query.form = "values"
            THEN <<Keyword("insert into"), Quoted(query.into), Keyword("(")>>
                 \o columnTokens \o <<Keyword(") values (")>> \o valueTokens
                 \o <<Keyword(") on conflict on constraint"),
                      Quoted(query.onConflictOnConstraint),
                      Keyword(query.action)>>
                 \o setTokens \o <<Keyword("returning " \o query.returning)>>
            ELSE <<Keyword("insert into"), Quoted(query.into),
                   Keyword(query.form), Keyword("returning " \o query.returning)>>,
         values |-> [k \in 1..Len(bound) |-> bound[k].param]]

NoQuery ==
    [into |-> <<>>, form |-> "", columns |-> <<>>, values |-> <<>>,
     onConflictOnConstraint |-> <<>>, action |-> "", set |-> <<>>,
     returning |-> ""]

\* the plan of a request that has not been resolved, or failed to resolve
NoPlan ==
    [error |-> "none", errorField |-> "", errorColumns |-> {},
     constraintName |-> "", sqlColumns |-> <<>>, sqlValues |-> <<>>,
     ignoreUpdate |-> {}, conflictUpdateArray |-> <<>>, mutationQuery |-> NoQuery]

\* the index of the matching constraint: -1 for a throw while searching,
\* 0 for undefined
matchIndex(im, tbl, req) ==
    IF im = "part"
    THEN IF assertionFails(tbl) THEN -1 ELSE matchingConstraint(tbl, req)
    ELSE tsMatchingConstraint(tbl, req)

\* faulty variant of resolvePlan: the columns are reconciled before the
\* constraint is looked for, so a disagreement between where and input is
\* reported even when no constraint can be resolved
resolvePlanReconcileFirst(im, tbl, req) ==
    LET m == matchIndex(im, tbl, req)
        cols == sqlify(im, tbl.attributes, req, 1, NoColumns)
        updates == conflictUpdateArray(cols.sqlColumns, cols.ignoreUpdate)
    IN  IF cols.error # "none"
        THEN [NoPlan EXCEPT !.error = cols.error, !.errorField = cols.errorField]
        ELSE IF m = -1
        THEN [NoPlan EXCEPT !.error =
                 IF im = "part" THEN "AssertionError" ELSE "TypeError"]
        ELSE IF m = 0
        THEN [NoPlan EXCEPT
                 !.error = "NoMatchingConstraint",
                 !.errorColumns = IF im = "part" THEN DOMAIN req.input
                                  ELSE upsertedColumns(tbl, req)]
        ELSE [NoPlan EXCEPT
                !.constraintName = tbl.constraints[m].name,
                !.sqlColumns = cols.sqlColumns,
                !.sqlValues = cols.sqlValues,
                !.ignoreUpdate = cols.ignoreUpdate,
                !.conflictUpdateArray = updates,
                !.mutationQuery =
                    mutationQuery(tbl, tbl.constraints[m].name, cols.sqlColumns,
                                  cols.sqlValues, updates)]

\* resolve() up to the call of viaTemporaryTable: the error thrown, or the
\* statement handed to the execution adapter
resolvePlan(im, tbl, req) ==
    LET m == matchIndex(im, tbl, req)
    IN  IF m = -1
        THEN [NoPlan EXCEPT !.error =
                 IF im = "part" THEN "AssertionError" ELSE "TypeError"]
        ELSE IF m = 0
        THEN [NoPlan EXCEPT
                 !.error = "NoMatchingConstraint",
                 !.errorColumns = IF im = "part" THEN DOMAIN req.input
                                  ELSE upsertedColumns(tbl, req)]
        ELSE
          LET constraintName == tbl.constraints[m].name
              cols == sqlify(im, tbl.attributes, req, 1, NoColumns)
              updates == conflictUpdateArray(cols.sqlColumns, cols.ignoreUpdate)
          IN  IF cols.error # "none"
              THEN [NoPlan EXCEPT !.error = cols.error,
                                  !.errorField = cols.errorField,
                                  !.constraintName = constraintName]
              ELSE [NoPlan EXCEPT
                      !.constraintName = constraintName,
                      !.sqlColumns = cols.sqlColumns,
                      !.sqlValues = cols.sqlValues,
                      !.ignoreUpdate = cols.ignoreUpdate,
                      !.conflictUpdateArray = updates,
                      !.mutationQuery =
                          mutationQuery(tbl, constraintName, cols.sqlColumns,
                                        cols.sqlValues, updates)]

-----------------------------------------------------------------------------
(* Execution adapter: viaTemporaryTable runs the statement on the relation *)
(* A row maps the names of its non-null columns to their values.           *)

\* the column names a constraint of the relation covers
constraintColumnNames(tbl, name) ==
    LET con == CHOOSE c \in Range(tbl.constraints) : c.name = name
    IN  {findAttribute(tbl.attributes, con.keyAttributeNums[j]).name :
            j \in {k \in 1..Len(con.keyAttributeNums) :
                     findAttribute(tbl.attributes, con.keyAttributeNums[k]) # Undefined}}

\* two rows carry the same non-null values in all the columns
agreeOn(r1, r2, columns) ==
    \A c \in columns : c \in DOMAIN r1 /\ c \in DOMAIN r2 /\ r1[c] = r2[c]

\* the row would violate a unique or primary-key constraint next to the others
violates(tbl, others, row) ==
    \E con \in Range(tbl.constraints) :
        \E r \in others : agreeOn(r, row, constraintColumnNames(tbl, con.name))

\* the row the statement proposes: the listed columns with their parameters,
\* a serial column left out takes the next sequence value, a column with a
\* constant default left out takes the default, any other column left out
\* stays null
proposedRow(tbl, query, serial) ==
    LET listed == {query.columns[k].names[1] : k \in 1..Len(query.columns)}
        valueOf(c) == query.values[CHOOSE k \in 1..Len(query.columns) :
                                       query.columns[k].names[1] = c].param
        serials == {a.name : a \in {b \in Range(tbl.attributes) :
                                       b.default.kind = "serial"}} \ listed
        defaulted == {a.name : a \in {b \in Range(tbl.attributes) :
                                         b.default.kind = "value"}} \ listed
        defaultOf(c) ==
            (CHOOSE a \in Range(tbl.attributes) : a.name = c).default.value
    IN  [c \in listed \cup serials \cup defaulted |->
            IF c \in listed THEN valueOf(c)
            ELSE IF c \in serials THEN serial
            ELSE defaultOf(c)]

\* whether evaluating the statement draws a value from the sequence
drawsSerial(tbl, query) ==
    \E a \in Range(tbl.attributes) :
        /\ a.default.kind = "serial"
        /\ a.name \notin {query.columns[k].names[1] : k \in 1..Len(query.columns)}

\* the stored row after "do update set col = excluded.col, ..."
updatedRow(old, proposed, query) ==
    LET assigned == {query.set[k].column.names[1] : k \in 1..Len(query.set)}
    IN  [c \in DOMAIN old \cup assigned |->
            IF c \in assigned THEN proposed[c] ELSE old[c]]

\* the outcome of running the statement: an error or the new rows, the rows
\* it returns, and the sequence afterwards
executeQuery(tbl, query, stored, serial) ==
    LET proposed == proposedRow(tbl, query, serial)
        after == IF drawsSerial(tbl, query) THEN serial + 1 ELSE serial
        failed(e, s) == [error |-> e, rows |-> stored, returned |-> <<>>, nextId |-> s]
        done(rs, r) == [error |-> "none", rows |-> rs, returned |-> <<r>>, nextId |-> after]
    IN  IF query.form = "default values"
        THEN IF violates(tbl, stored, proposed)
             THEN failed("UniqueViolation", after)
             ELSE done(stored \cup {proposed}, proposed)
        ELSE IF Len(query.set) = 0
        \* "do update set returning *" does not parse
        THEN failed("SyntaxError", serial)
        ELSE
          LET arbiter == constraintColumnNames(tbl, query.onConflictOnConstraint[1])
              hit == {r \in stored : agreeOn(r, proposed, arbiter)}
          IN  IF hit = {}
              THEN IF violates(tbl, stored, proposed)
                   THEN failed("UniqueViolation", after)
                   ELSE done(stored \cup {proposed}, proposed)
              ELSE LET old == CHOOSE r \in hit : TRUE
                       new == updatedRow(old, proposed, query)
                   IN  IF violates(tbl, stored \ {old}, new)
                       THEN failed("UniqueViolation", after)
                       ELSE done((stored \ {old}) \cup {new}, new)

-----------------------------------------------------------------------------
(* Requests *)

\* all maps from a subset of the keys to the values
Maps(keys, vals) == UNION {[ks -> vals] : ks \in SUBSET keys}

\* the fields of the where argument (WhereType): the member columns of the
\* relation's unique and primary-key constraints
whereFieldNames(tbl) ==
    UNION {{camelCase(c) : c \in constraintColumnNames(tbl, con.name)} :
              con \in Range(tbl.constraints)}

\* the fields of the row input type: one per column
inputFieldNames(tbl) == {column(a) : a \in Range(tbl.attributes)}

\* the values of the ignore enum: the columns that omit neither
\* updateOnConflict nor update
ignoreEnumValues(tbl) ==
    {upsertIgnoreColumnEnum(a) :
        a \in {b \in Range(tbl.attributes) :
                 ~(omit(b, "updateOnConflict") \/ omit(b, "update"))}}

\* the fields of the ignore input object: one Boolean per column
ignoreTypeFields(tbl) == {camelCase(a.name) : a \in Range(tbl.attributes)}

\* the arguments of one call of resolve(); an absent or null where has
\* hasWhere = FALSE, an absent ignore is the empty list / the empty object
Request(hasWhere, where, input, ignore, ignoreFlags) ==
    [hasWhere |-> hasWhere, where |-> where, input |-> input,
     ignore |-> ignore, ignoreFlags |-> ignoreFlags]

WhereArgs(tbl) ==
    {<<FALSE, EmptyObject>>} \cup
    {<<TRUE, w>> : w \in Maps(whereFieldNames(tbl), Values)}

\* every request the schema admits for the relation
Requests(im, tbl) ==
    {Request(wa[1], wa[2], input, ig[1], ig[2]) :
        wa \in WhereArgs(tbl),
        input \in Maps(inputFieldNames(tbl), Values),
        ig \in IF im = "part"
               THEN {<<s, EmptyObject>> : s \in SUBSET ignoreEnumValues(tbl)}
               ELSE {<<{}, f>> : f \in Maps(ignoreTypeFields(tbl), BOOLEAN)}}

\* the values a column takes in the requests of the multi-request
\* specification: only weight varies
storedValues(fieldName) == IF fieldName = "weight" THEN Values ELSE {0}

\* all maps from a subset of the keys to the stored values of each key
StoredMaps(keys) ==
    UNION {{f \in [ks -> Values] : \A k \in ks : f[k] \in storedValues(k)} :
              ks \in SUBSET keys}

\* no where, an empty where, or a where on exactly the member columns of
\* one constraint
StoredWhereArgs(tbl) ==
    {<<FALSE, EmptyObject>>, <<TRUE, EmptyObject>>} \cup
    {<<TRUE, w>> : w \in UNION {
        {f \in StoredMaps(whereFieldNames(tbl)) :
            DOMAIN f = {camelCase(c) : c \in constraintColumnNames(tbl, con.name)}} :
        con \in Range(tbl.constraints)}}

\* the requests of the multi-request specification; ignore is absent or
\* names the id column (or, as flags, also says weight: false)
StoredRequests(im, tbl) ==
    {Request(wa[1], wa[2], input, ig[1], ig[2]) :
        wa \in StoredWhereArgs(tbl),
        input \in StoredMaps(inputFieldNames(tbl)),
        ig \in IF im = "part"
               THEN {<<s, EmptyObject>> :
                        s \in {{}, {"ID"} \cap ignoreEnumValues(tbl)}}
               ELSE {<<{}, f>> :
                        f \in {EmptyObject, [k \in {"id"} |-> TRUE],
                               [k \in {"weight"} |-> FALSE]}}}

NoRequest == Request(FALSE, EmptyObject, EmptyObject, {}, EmptyObject)

-----------------------------------------------------------------------------
(* Schema build: which relations get an upsert mutation *)

\* a class of the introspection: whether it has a namespace and a primary
\* key constraint, its smart-comment and privilege flags, whether the
\* schema has a GraphQL type and an input type for it, and whether every
\* column of its unique constraints has an input type
PgClass(nm, ns, pk, om, sel, ins, upd, ty, inTy, keyTy) ==
    [name |-> nm, namespace |-> ns, primaryKeyConstraint |-> pk,
     omitUpsert |-> om, isSelectable |-> sel, isInsertable |-> ins,
     isUpdatable |-> upd, gqlTable |-> ty, gqlTableInput |-> inTy,
     keyInputTypes |-> keyTy]

\* inflection.tableType(table)
tableType(pgClass) ==
    CASE pgClass.name = "bikes" -> "Bike"
      [] pgClass.name = "car" -> "Car"
      [] pgClass.name = "things" -> "Thing"

\* const upsertFnName = `upsert${tableTypeName}`
upsertFnName(pgClass) == "upsert" \o tableType(pgClass)

\* a class that lacks nothing
PlainClass(name) ==
    PgClass(name, TRUE, TRUE, FALSE, TRUE, TRUE, TRUE, TRUE, TRUE, TRUE)

\* the classes "things" the introspection can hold
ThingClasses ==
    {PgClass("things", f[1], f[2], f[3], f[4], f[5], f[6], f[7], f[8], f[9]) :
        f \in [1..9 -> BOOLEAN]}

\* faulty variant of upsertableTables: no test of the primary key
upsertableTablesAnyKey(classes) ==
    SelectSeq(classes, LAMBDA t :
        /\ t.namespace
        /\ ~omit(t, "upsert")
        /\ t.isSelectable
        /\ t.isInsertable
        /\ t.isUpdatable)

\* pgIntrospectionResultsByKind.class.filter((table) => !!table.namespace &&
\* !!table.primaryKeyConstraint && !omit(table, "upsert") &&
\* table.isSelectable && table.isInsertable && table.isUpdatable)
upsertableTables(classes) ==
    SelectSeq(classes, LAMBDA t :
        /\ t.namespace
        /\ t.primaryKeyConstraint
        /\ ~omit(t, "upsert")
        /\ t.isSelectable
        /\ t.isInsertable
        /\ t.isUpdatable)

\* upsertableTables.reduce((fnsByName, table) => { if (!gqlTable) return
\* fnsByName; if (!gqlTableInput) return fnsByName;
\* fnsByName[upsertFnName] = fn; return fnsByName }, {}): the field names
upsertFieldsByName(tables) ==
    {upsertFnName(tables[k]) :
        k \in {j \in 1..Len(tables) : tables[j].gqlTable /\ tables[j].gqlTableInput}}

\* throw new Error(`Could not find input type for key ...`): building the
\* field of one of these tables throws, and the schema build with it
throwsOnKey(tables) ==
    \E k \in 1..Len(tables) :
        tables[k].gqlTable /\ tables[k].gqlTableInput /\ ~tables[k].keyInputTypes

\* postgraphile-upsert.ts: the chain of six filters
tsUpsertableTables(classes) ==
    LET f1 == SelectSeq(classes, LAMBDA t : t.namespace)
        f2 == SelectSeq(f1, LAMBDA t : t.primaryKeyConstraint)
        f3 == SelectSeq(f2, LAMBDA t : ~omit(t, "upsert"))
        f4 == SelectSeq(f3, LAMBDA t : t.isSelectable)
        f5 == SelectSeq(f4, LAMBDA t : t.isInsertable)
        f6 == SelectSeq(f5, LAMBDA t : t.isUpdatable)
    IN  f6

\* postgraphile-upsert.ts: the reduce after the filters; it returns memo
\* unchanged when Table or TableInput is missing
tsUpsertFields(classes) ==
    LET tables == tsUpsertableTables(classes)
    IN  {upsertFnName(tables[k]) :
            k \in {j \in 1..Len(tables) :
                      tables[j].gqlTable /\ tables[j].gqlTableInput}}

\* constraint.keyAttributeNums.map((num) => attributes.find(...))
keysOf(tbl, constraint) ==
    [j \in 1..Len(constraint.keyAttributeNums) |->
        findAttribute(tbl.attributes, constraint.keyAttributeNums[j])]

\* keys.some((key) => omit(key, "read")) from key j on: "true", "false", or
\* "throw" when it comes to a key that was not found (omit reads the tags
\* of undefined, and the consistency check would throw if it did not)
RECURSIVE someOmitsRead(_, _)
someOmitsRead(keys, j) ==
    IF j > Len(keys) THEN "false"
    ELSE IF keys[j] = Undefined THEN "throw"
    ELSE IF omit(keys[j], "read") THEN "true"
    ELSE someOmitsRead(keys, j + 1)

\* the accumulator of the reduce: an object with the fields so far, or
\* undefined
FieldsObject(names) == [defined |-> TRUE, names |-> names]
NoFieldsObject == [defined |-> FALSE, names |-> {}]

\* part_000: uniqueConstraints.reduce((acc, constraint) => { if
\* (keys.some(...)) return acc; ... keys.forEach((key) => { acc[fieldName] =
\* { type: InputType } }); return acc }, {}) from constraint i on: the field
\* names of the WhereType, or the error thrown
RECURSIVE gqlInputTypesByFieldName(_, _, _)
gqlInputTypesByFieldName(tbl, i, acc) ==
    IF i > Len(tbl.constraints) THEN [error |-> "none", fields |-> acc]
    ELSE
      LET keys == keysOf(tbl, tbl.constraints[i])
          unreadable == someOmitsRead(keys, 1)
      IN  IF unreadable = "throw" THEN [error |-> "ConsistencyError", fields |-> acc]
          ELSE IF unreadable = "true"
          THEN gqlInputTypesByFieldName(tbl, i + 1, acc)
          ELSE gqlInputTypesByFieldName(tbl, i + 1,
                   FieldsObject(acc.names \cup
                       {camelCase(keys[j].name) : j \in 1..Len(keys)}))

\* postgraphile-upsert.ts: the same reduce with a bare "return;" for an
\* unreadable constraint: the accumulator is undefined from then on, and
\* acc[fieldName] = ... on it is a TypeError
RECURSIVE tsWhereFields(_, _, _)
tsWhereFields(tbl, i, acc) ==
    IF i > Len(tbl.constraints) THEN [error |-> "none", fields |-> acc]
    ELSE
      LET keys == keysOf(tbl, tbl.constraints[i])
          unreadable == someOmitsRead(keys, 1)
      IN  IF unreadable = "throw" THEN [error |-> "ConsistencyError", fields |-> acc]
          ELSE IF unreadable = "true"
          THEN tsWhereFields(tbl, i + 1, NoFieldsObject)
          ELSE IF ~acc.defined /\ Len(keys) > 0
          THEN [error |-> "TypeError", fields |-> acc]
          ELSE tsWhereFields(tbl, i + 1,
                   FieldsObject(acc.names \cup
                       {camelCase(keys[j].name) : j \in 1..Len(keys)}))

\* the fields of the WhereType as the implementation builds them
whereTypeFields(im, tbl) ==
    IF im = "part" THEN gqlInputTypesByFieldName(tbl, 1, FieldsObject({}))
    ELSE tsWhereFields(tbl, 1, FieldsObject({}))

\* the schema while requests are served: built for the relation's class
ServedSchema(tbl) ==
    [phase |-> "fields", classes |-> <<PlainClass(tbl.name)>>,
     upsertableTables |-> <<PlainClass(tbl.name)>>,
     fields |-> {upsertFnName(PlainClass(tbl.name))},
     whereType |-> [fields |-> whereFieldNames(tbl)]]

-----------------------------------------------------------------------------
(* The state machine *)

\* input.clientMutationId: undefined when the request carries none
inputClientMutationId(req) ==
    IF "clientMutationId" \in DOMAIN req THEN req.clientMutationId ELSE Undefined

IdleSlot ==
    [pc |-> "idle", req |-> NoRequest, plan |-> NoPlan, executions |-> 0,
     error |-> "none", data |-> <<>>, clientMutationId |-> Undefined]

Init ==
    /\ table \in Catalogs
    /\ impl \in Impls
    /\ reqs = [r \in Slots |-> IdleSlot]
    /\ rows = {}
    /\ nextId = 1
    /\ calls = 0
    /\ schema = ServedSchema(table)

\* faulty variant of Call: sqlColumns and sqlValues live outside resolve()
\* and are shared by the requests, so a request's lists start with what
\* another request in the slots has pushed
CallSharedLists(r, req) ==
    /\ reqs[r].pc = "idle"
    /\ LET own == resolvePlan(impl, table, req)
           others == {q \in Slots \ {r} : reqs[q].pc # "idle"}
           shared == IF others = {} THEN NoPlan ELSE reqs[Min(others)].plan
           plan == IF own.error # "none" THEN own
                   ELSE [own EXCEPT !.sqlColumns = shared.sqlColumns \o @,
                                    !.sqlValues = shared.sqlValues \o @]
       IN  reqs' = [reqs EXCEPT ![r] =
               [pc |-> IF plan.error = "none" THEN "awaiting" ELSE "failed",
                req |-> req, plan |-> plan,
                executions |-> IF plan.error = "none" THEN 1 ELSE 0,
                error |-> plan.error, data |-> <<>>,
                clientMutationId |-> Undefined]]
    /\ calls' = calls + 1
    /\ UNCHANGED <<table, impl, rows, nextId, schema>>

\* faulty variant of Call: the error is recorded but not thrown, the
\* statement built so far goes to viaTemporaryTable all the same
CallWithoutThrow(r, req) ==
    /\ reqs[r].pc = "idle"
    /\ LET plan == resolvePlan(impl, table, req)
       IN  reqs' = [reqs EXCEPT ![r] =
               [pc |-> "awaiting", req |-> req, plan |-> plan,
                executions |-> 1, error |-> plan.error, data |-> <<>>,
                clientMutationId |-> Undefined]]
    /\ calls' = calls + 1
    /\ UNCHANGED <<table, impl, rows, nextId, schema>>

\* resolve(_data, {where, input, ignore}, {pgClient}, resolveInfo) up to
\* its await: it throws, or it hands the statement to viaTemporaryTable
Call(r, req) ==
    /\ reqs[r].pc = "idle"
    /\ LET plan == resolvePlan(impl, table, req)
       IN  reqs' = [reqs EXCEPT ![r] =
               [pc |-> IF plan.error = "none" THEN "awaiting" ELSE "failed",
                req |-> req, plan |-> plan,
                executions |-> IF plan.error = "none" THEN 1 ELSE 0,
                error |-> plan.error, data |-> <<>>,
                clientMutationId |-> Undefined]]
    /\ calls' = calls + 1
    /\ UNCHANGED <<table, impl, rows, nextId, schema>>

\* faulty variant of Execute: a statement the database rejects is handed to
\* viaTemporaryTable a second time before the request gives up
ExecuteRetrying(r) ==
    /\ reqs[r].pc = "awaiting"
    /\ LET out == executeQuery(table, reqs[r].plan.mutationQuery, rows, nextId)
           again == out.error # "none" /\ reqs[r].executions = 1
       IN  /\ rows' = out.rows
           /\ nextId' = out.nextId
           /\ reqs' = [reqs EXCEPT
                 ![r].pc = IF out.error = "none" THEN "done"
                           ELSE IF again THEN "awaiting" ELSE "failed",
                 ![r].executions = IF again THEN @ + 1 ELSE @,
                 ![r].error = IF again THEN @ ELSE out.error,
                 ![r].data = out.returned,
                 ![r].clientMutationId =
                     IF out.error = "none" THEN inputClientMutationId(reqs[r].req)
                     ELSE @]
    /\ UNCHANGED <<table, impl, calls, schema>>

\* the database runs the statement and viaTemporaryTable settles; resolve()
\* returns { clientMutationId: input.clientMutationId, data: rows[0] } or
\* rethrows
Execute(r) ==
    /\ reqs[r].pc = "awaiting"
    /\ LET out == executeQuery(table, reqs[r].plan.mutationQuery, rows, nextId)
       IN  /\ rows' = out.rows
           /\ nextId' = out.nextId
           /\ reqs' = [reqs EXCEPT
                 ![r].pc = IF out.error = "none" THEN "done" ELSE "failed",
                 ![r].error = out.error,
                 ![r].data = out.returned,
                 ![r].clientMutationId =
                     IF out.error = "none" THEN inputClientMutationId(reqs[r].req)
                     ELSE @]
    /\ UNCHANGED <<table, impl, calls, schema>>

\* the adapter fails before the statement takes effect (connection loss)
AdapterFails(r) ==
    /\ reqs[r].pc = "awaiting"
    /\ reqs' = [reqs EXCEPT ![r].pc = "failed", ![r].error = "ConnectionError"]
    /\ UNCHANGED <<table, impl, rows, nextId, calls, schema>>

\* the response is delivered and the request's data is dropped
Retire(r) ==
    /\ reqs[r].pc \in {"done", "failed"}
    /\ reqs' = [reqs EXCEPT ![r] = IdleSlot]
    /\ UNCHANGED <<table, impl, rows, nextId, calls, schema>>

\* one request taken through the pipeline, over every admitted request
Next ==
    \/ /\ calls = 0
       /\ \E req \in Requests(impl, table) : Call(1, req)
    \/ Execute(1)
    \/ AdapterFails(1)

Spec == Init /\ [][Next]_vars

\* several requests, one after the other or in flight together, against
\* the stored rows of a relation (the adapter's own failures are left to Spec)
InitStored ==
    /\ table \in StoredCatalogs
    /\ impl \in Impls
    /\ reqs = [r \in Slots |-> IdleSlot]
    /\ rows = {}
    /\ nextId = 1
    /\ calls = 0
    /\ schema = ServedSchema(table)

NextStored ==
    \E r \in Slots :
        \/ /\ calls < MaxCalls
           /\ reqs[r].pc = "idle"
           \* a request takes the lowest free slot
           /\ \A q \in Slots : q < r => reqs[q].pc # "idle"
           /\ \E req \in StoredRequests(impl, table) : Call(r, req)
        \/ Execute(r)
        \/ Retire(r)

SpecStored == InitStored /\ [][NextStored]_vars

\* the upsertCar requests: no where; make is always given, id, trim and
\* active may be; ignore is absent or names active
CarRequests(im, tbl) ==
    {Request(FALSE, EmptyObject, input, ig[1], ig[2]) :
        input \in {f \in Maps({"id", "make", "trim", "active"}, Values) :
                      /\ "make" \in DOMAIN f /\ f["make"] = 0
                      /\ "id" \in DOMAIN f => f["id"] = 0},
        ig \in IF im = "part"
               THEN {<<{}, EmptyObject>>, <<{"ACTIVE"}, EmptyObject>>}
               ELSE {<<{}, EmptyObject>>, <<{}, [k \in {"active"} |-> TRUE]>>}}

\* a car stored before the requests arrive
StoredCar == [c \in {"id", "make", "trim", "active"} |-> 0]

InitCar ==
    /\ table \in CarCatalogs
    /\ impl \in Impls
    /\ reqs = [r \in Slots |-> IdleSlot]
    /\ rows \in {{}, {StoredCar}}
    /\ nextId = 1
    /\ calls = 0
    /\ schema = ServedSchema(table)

\* upsertCar requests, one after the other or in flight together
NextCar ==
    \E r \in Slots :
        \/ /\ calls < MaxCalls
           /\ r = calls + 1
           /\ \E req \in CarRequests(impl, table) : Call(r, req)
        \/ Execute(r)

SpecCar == InitCar /\ [][NextCar]_vars

\* a number as written in the GraphQL document: its digits, with or without
\* a fraction ".0" (weight: 0 and weight: 0.0)
FloatLiterals == [digits : Values, point : BOOLEAN]

\* the value resolve() receives for a Float literal: the number
parseLiteral(lit) == lit.digits

\* the ways the values of an argument object can have been written: only
\* weight is a real column, the other values are written without fraction
Written(object) ==
    {lits \in [DOMAIN object -> FloatLiterals] :
        \A k \in DOMAIN object :
            /\ parseLiteral(lits[k]) = object[k]
            /\ k # "weight" => ~lits[k].point}

\* the requests of the multi-request specification, each in every way of
\* writing its numbers
LiteralRequests(im, tbl) ==
    UNION {{[hasWhere |-> req.hasWhere, where |-> req.where, input |-> req.input,
             ignore |-> req.ignore, ignoreFlags |-> req.ignoreFlags,
             whereLiterals |-> wl, inputLiterals |-> il] :
               wl \in Written(req.where), il \in Written(req.input)} :
           req \in StoredRequests(im, tbl)}

\* a bike stored before the request arrives: create(t, {serialNumber})
StoredBike == [c \in {"id", "serial_number", "weight"} |-> IF c = "id" THEN 1 ELSE 0]

InitLiterals ==
    /\ table \in StoredCatalogs
    /\ impl \in Impls
    /\ reqs = [r \in Slots |-> IdleSlot]
    /\ rows \in {{}, {StoredBike}}
    /\ nextId = 2
    /\ calls = 0
    /\ schema = ServedSchema(table)

\* one request, its numbers written in any way, against the stored bike
NextLiterals ==
    \/ /\ calls = 0
       /\ \E req \in LiteralRequests(impl, table) : Call(1, req)
    \/ Execute(1)

SpecLiterals == InitLiterals /\ [][NextLiterals]_vars

\* the orders in which the keys of an argument object can be written
\* (the order Object.keys() and for-in would yield)
RECURSIVE KeyOrders(_)
KeyOrders(keys) ==
    IF keys = {} THEN {<<>>}
    ELSE UNION {{<<k>> \o s : s \in KeyOrders(keys \ {k})} : k \in keys}

\* the same arguments with their keys written in every possible order
Reorderings(req) ==
    {[hasWhere |-> req.hasWhere, where |-> req.where, input |-> req.input,
      ignore |-> req.ignore, ignoreFlags |-> req.ignoreFlags,
      whereKeys |-> wk, inputKeys |-> ik] :
        wk \in KeyOrders(DOMAIN req.where), ik \in KeyOrders(DOMAIN req.input)}

\* the requests of the multi-request specification, each in every key order
OrderedRequests(im, tbl) ==
    UNION {Reorderings(req) : req \in StoredRequests(im, tbl)}

\* a request in some key order, then the same arguments again in any key
\* order, in flight together or one after the other
NextKeyOrder ==
    \/ /\ calls = 0
       /\ \E req \in OrderedRequests(impl, table) : Call(1, req)
    \/ \E r \in Slots :
          /\ calls >= 1
          /\ calls < MaxCalls
          /\ r = calls + 1
          /\ \E req \in Reorderings(reqs[1].req) : Call(r, req)
    \/ \E r \in Slots : Execute(r)

SpecKeyOrder == InitStored /\ [][NextKeyOrder]_vars

\* the client correlation tokens a request may carry; none is undefined
ClientMutationIds == {Undefined, [string |-> "a"], [string |-> "b"]}

\* the requests of the multi-request specification, with and without a
\* clientMutationId in the input
TokenRequests(im, tbl) ==
    UNION {{[hasWhere |-> req.hasWhere, where |-> req.where, input |-> req.input,
             ignore |-> req.ignore, ignoreFlags |-> req.ignoreFlags,
             clientMutationId |-> id] : id \in ClientMutationIds \ {Undefined}}
           \cup {req} :
           req \in StoredRequests(im, tbl)}

\* one request with its token against the stored bike; the adapter runs the
\* statement or fails on its own
NextToken ==
    \/ /\ calls = 0
       /\ \E req \in TokenRequests(impl, table) : Call(1, req)
    \/ Execute(1)
    \/ AdapterFails(1)

SpecToken == InitLiterals /\ [][NextToken]_vars

-----------------------------------------------------------------------------
(* Schema build as a state machine *)

\* the introspection is in: a class "things" of any kind, and bikes
InitSchema ==
    /\ table = Bikes
    /\ impl \in Impls
    /\ reqs = [r \in Slots |-> IdleSlot]
    /\ rows = {}
    /\ nextId = 1
    /\ calls = 0
    /\ \E thing \in ThingClasses :
          schema = [phase |-> "introspected",
                    classes |-> <<thing, PlainClass("bikes")>>,
                    upsertableTables |-> <<>>, fields |-> {},
                    whereType |-> [fields |-> {}]]

\* builder.hook("build", ...) of part_000: upsertableTables is computed
BuildHook ==
    /\ impl = "part"
    /\ schema.phase = "introspected"
    /\ schema' = [schema EXCEPT !.phase = "build",
                                !.upsertableTables = upsertableTables(schema.classes)]
    /\ UNCHANGED <<table, impl, reqs, rows, nextId, calls>>

\* builder.hook("GraphQLObjectType:fields", ...) on the root mutation type:
\* the upsert fields are added, and with the field of the relation its
\* WhereType, unless building one of them throws. A WhereType whose fields
\* are undefined is left to graphile-build and graphql: they reject it, or
\* they make a type without fields of it.
FieldsHook ==
    /\ schema.phase = (IF impl = "part" THEN "build" ELSE "introspected")
    /\ LET tables == IF impl = "part" THEN schema.upsertableTables
                                      ELSE tsUpsertableTables(schema.classes)
           names == IF impl = "part" THEN upsertFieldsByName(tables)
                                     ELSE tsUpsertFields(schema.classes)
           built == upsertFnName(PlainClass(table.name)) \in names
           where == whereTypeFields(impl, table)
       IN  IF throwsOnKey(tables) \/ (built /\ where.error # "none")
           THEN schema' = [schema EXCEPT !.phase = "failed"]
           ELSE IF built /\ ~where.fields.defined
           THEN \E outcome \in {"failed", "fields"} :
                    schema' = [schema EXCEPT
                                 !.phase = outcome,
                                 !.fields = IF outcome = "fields" THEN names ELSE @]
           ELSE schema' = [schema EXCEPT
                             !.phase = "fields",
                             !.fields = names,
                             !.whereType = [fields |-> IF built
                                                       THEN where.fields.names
                                                       ELSE {}]]
    /\ UNCHANGED <<table, impl, reqs, rows, nextId, calls>>

NextSchema == BuildHook \/ FieldsHook

SpecSchema == InitSchema /\ [][NextSchema]_vars

\* the requests the built schema admits: where is absent or carries fields
\* of the WhereType, input carries any of the columns, no ignore
WhereTypeRequests(tbl, whereType) ==
    {Request(wa[1], wa[2], input, {}, EmptyObject) :
        wa \in {<<FALSE, EmptyObject>>} \cup
               {<<TRUE, w>> : w \in Maps(whereType.fields, Values)},
        input \in Maps(inputFieldNames(tbl), {0})}

\* the introspection holds a relation of which some columns omit read
InitWhere ==
    /\ table \in ReadCatalogs
    /\ impl \in Impls
    /\ reqs = [r \in Slots |-> IdleSlot]
    /\ rows = {}
    /\ nextId = 1
    /\ calls = 0
    /\ schema = [phase |-> "introspected",
                 classes |-> <<PlainClass(table.name)>>,
                 upsertableTables |-> <<>>, fields |-> {},
                 whereType |-> [fields |-> {}]]

\* the schema is built for the relation, then it serves one request
NextWhere ==
    \/ BuildHook
    \/ FieldsHook
    \/ /\ schema.phase = "fields"
       /\ calls = 0
       /\ \E req \in WhereTypeRequests(table, schema.whereType) : Call(1, req)

SpecWhere == InitWhere /\ [][NextWhere]_vars

-----------------------------------------------------------------------------
(* Vocabulary of the properties *)

\* the request in slot r has gone through resolve() up to its await
Resolved(r) == reqs[r].pc # "idle"

\* a constraint was selected for the request in slot r (reconcile ran)
Selected(r) == Resolved(r) /\ reqs[r].plan.constraintName # ""

\* the field names of the member columns of the i-th constraint
memberFields(tbl, i) ==
    {camelCase(c) : c \in constraintColumnNames(tbl, tbl.constraints[i].name)}

\* the first constraint, in catalog order, all of whose member columns are
\* among the keys; 0 if there is none
FirstCovered(tbl, keys) ==
    IF \E i \in 1..Len(tbl.constraints) : memberFields(tbl, i) \subseteq keys
    THEN Min({i \in 1..Len(tbl.constraints) : memberFields(tbl, i) \subseteq keys})
    ELSE 0

\* the name of the relation's primary-key constraint
PrimaryKeyName(tbl) ==
    (CHOOSE c \in Range(tbl.constraints) : c.type = "p").name

HasPrimaryKey(tbl) == \E c \in Range(tbl.constraints) : c.type = "p"

\* the column names of a list of identifiers
Names(sqlColumns) == [k \in 1..Len(sqlColumns) |-> sqlColumns[k].names[1]]

\* the columns assigned by the conflict-update clause
Assigned(updates) == [k \in 1..Len(updates) |-> updates[k].column.names[1]]

\* the attributes on which where and input both carry a value, and differ
Disagreeing(tbl, req) ==
    {a \in Range(tbl.attributes) :
        /\ req.hasWhere
        /\ camelCase(a.name) \in DOMAIN req.where
        /\ column(a) \in DOMAIN req.input
        /\ req.where[camelCase(a.name)] # req.input[column(a)]}

\* the value the insert list of a plan gives to a column it lists
InsertValue(plan, name) ==
    plan.sqlValues[CHOOSE k \in 1..Len(plan.sqlColumns) :
                       plan.sqlColumns[k].names[1] = name].param

\* the caller's ignore argument names the attribute
IgnoreNames(req, attr) ==
    \/ upsertIgnoreColumnEnum(attr) \in req.ignore
    \/ /\ camelCase(attr.name) \in DOMAIN req.ignoreFlags
       /\ req.ignoreFlags[camelCase(attr.name)]

\* the attribute is excluded from the conflict update of the request
UpdateExcluded(attr, req) ==
    attr.omitUpdate \/ attr.omitUpdateOnConflict \/ IgnoreNames(req, attr)

AttributeNamed(tbl, name) == CHOOSE a \in Range(tbl.attributes) : a.name = name

\* the insert list the request calls for: the attributes, in the relation's
\* order, that have a value in input or in where, with the input value
\* first and the where value otherwise
ExpectedInsert(tbl, req) ==
    LET has(a) == \/ column(a) \in DOMAIN req.input
                  \/ req.hasWhere /\ camelCase(a.name) \in DOMAIN req.where
        listed == SelectSeq(tbl.attributes, has)
    IN  [k \in 1..Len(listed) |->
            <<listed[k].name,
              IF column(listed[k]) \in DOMAIN req.input
              THEN req.input[column(listed[k])]
              ELSE req.where[camelCase(listed[k].name)]>>]

\* the insert list of a plan, as (column, value) pairs
InsertList(plan) ==
    [k \in 1..Len(plan.sqlColumns) |->
        <<plan.sqlColumns[k].names[1], plan.sqlValues[k].param>>]

\* the step in which the statement of slot r takes effect or fails
Finishes(r) ==
    /\ reqs[r].pc = "awaiting"
    /\ reqs'[r].pc \in {"done", "failed"}

\* the stored rows that carry the given values in all the columns
RowsWith(columns, valueOf(_)) ==
    {row \in rows : \A c \in columns : c \in DOMAIN row /\ row[c] = valueOf(c)}

-----------------------------------------------------------------------------
(* Claims *)

\* C1 (as claimed): without a where argument the resolver selects the first
\* unique/primary constraint, in catalog order, whose member columns are all
\* among the input's column names.
C1_InputSelectsFirstCovered ==
    \A r \in Slots :
        (/\ Resolved(r)
         /\ Consistent(table)
         /\ ~reqs[r].req.hasWhere
         /\ FirstCovered(table, DOMAIN reqs[r].req.input) # 0)
        => /\ reqs[r].plan.error = "none"
           /\ reqs[r].plan.constraintName =
                table.constraints[FirstCovered(table, DOMAIN reqs[r].req.input)].name

\* C2: with a non-empty where the resolver selects the first constraint, in
\* catalog order, whose member columns are all keys of where, whatever the
\* input columns are.
C2_WhereSelectsFirstCovered ==
    \A r \in Slots :
        (/\ Resolved(r)
         /\ Consistent(table)
         /\ reqs[r].req.hasWhere
         /\ DOMAIN reqs[r].req.where # {}
         /\ FirstCovered(table, DOMAIN reqs[r].req.where) # 0)
        => /\ reqs[r].plan.error \in {"none", "ValueMismatch"}
           /\ reqs[r].plan.constraintName =
                table.constraints[FirstCovered(table, DOMAIN reqs[r].req.where)].name

\* C2 witness: where covers two constraints, the input covers the
\* primary key declared before both, and the first covered by where is taken
C2_Witness ==
    \E r \in Slots :
        /\ Resolved(r)
        /\ table = OverlapNarrowFirst
        /\ DOMAIN reqs[r].req.where = {"serialNumber", "weight"}
        /\ "id" \in DOMAIN reqs[r].req.input
        /\ reqs[r].plan.constraintName = "bikes_serial_number_key"
        /\ reqs[r].pc = "awaiting"

\* C3: without a where argument, when the input covers no constraint, the
\* resolver returns the primary-key constraint and the request does not fail.
C3_PrimaryKeyFallback ==
    \A r \in Slots :
        (/\ Resolved(r)
         /\ Consistent(table)
         /\ HasPrimaryKey(table)
         /\ ~reqs[r].req.hasWhere
         /\ FirstCovered(table, DOMAIN reqs[r].req.input) = 0)
        => /\ reqs[r].plan.error = "none"
           /\ reqs[r].plan.constraintName = PrimaryKeyName(table)

\* C3 witness: an input of weight alone on bikes resolves to bikes_pkey
C3_Witness ==
    \E r \in Slots :
        /\ Resolved(r)
        /\ table = Bikes
        /\ ~reqs[r].req.hasWhere
        /\ DOMAIN reqs[r].req.input = {"weight"}
        /\ reqs[r].plan.constraintName = "bikes_pkey"
        /\ reqs[r].pc = "awaiting"

C7_NeverEmptyUpdateSet ==
    \A r \in Slots :
        (Resolved(r) /\ reqs[r].plan.error = "none"
            /\ Len(reqs[r].plan.sqlColumns) # 0) =>
            LET q == reqs[r].plan.mutationQuery
            IN  /\ ~(q.action = "do update set" /\ Len(q.set) = 0)
                /\ Len(reqs[r].plan.conflictUpdateArray) = 0
                     => q.action = "do nothing"

\* C9 (as claimed): a where without keys is resolved exactly like an absent
\* where.
C9_EmptyWhereLikeNoWhere ==
    \A r \in Slots :
        (/\ Resolved(r)
         /\ Consistent(table)
         /\ reqs[r].req.hasWhere
         /\ DOMAIN reqs[r].req.where = {})
        => LET same == resolvePlan(impl, table,
                           [reqs[r].req EXCEPT !.hasWhere = FALSE])
           IN  /\ reqs[r].plan.error = same.error
               /\ reqs[r].plan.constraintName = same.constraintName

\* C10: a non-empty where that covers no constraint fails with
\* NoMatchingConstraint: neither the input columns nor the primary key are
\* consulted.
C10_UncoveredWhereFails ==
    \A r \in Slots :
        (/\ Resolved(r)
         /\ Consistent(table)
         /\ reqs[r].req.hasWhere
         /\ DOMAIN reqs[r].req.where # {}
         /\ FirstCovered(table, DOMAIN reqs[r].req.where) = 0)
        => /\ reqs[r].pc = "failed"
           /\ reqs[r].error = "NoMatchingConstraint"
           /\ reqs[r].plan.constraintName = ""
           /\ reqs[r].plan.mutationQuery = NoQuery
           /\ reqs[r].executions = 0

\* C10 witness: where names weight alone, the input covers both constraints
\* of bikes, the relation has a primary key, and resolution fails
C10_Witness ==
    \E r \in Slots :
        /\ table = Bikes
        /\ DOMAIN reqs[r].req.where = {"weight"}
        /\ DOMAIN reqs[r].req.input = {"id", "serialNumber", "weight"}
        /\ reqs[r].req.where["weight"] = reqs[r].req.input["weight"]
        /\ reqs[r].error = "NoMatchingConstraint"

-----------------------------------------------------------------------------
(* Claims about the stored rows *)

\* the second half of C1: an upsert without where whose input covers a
\* non-primary unique constraint first, and meets a stored row with the
\* same values in that constraint's columns, leaves the number of rows as
\* it is and stores its values in that row
C1_Step(r) ==
    LET q == reqs[r].req
        i == FirstCovered(table, DOMAIN q.input)
        cols == constraintColumnNames(table, table.constraints[i].name)
        inputOf(c) == q.input[camelCase(c)]
    IN  (/\ Finishes(r)
         /\ reqs'[r].error # "ConnectionError"
         /\ ~q.hasWhere
         /\ i # 0
         /\ table.constraints[i].type = "u"
         /\ RowsWith(cols, inputOf) # {})
        => /\ Cardinality(rows') = Cardinality(rows)
           /\ reqs'[r].pc = "done"
           /\ \A a \in Range(table.attributes) :
                (column(a) \in DOMAIN q.input /\ ~UpdateExcluded(a, q))
                => /\ a.name \in DOMAIN reqs'[r].data[1]
                   /\ reqs'[r].data[1][a.name] = q.input[column(a)]
                   /\ reqs'[r].data[1] \in rows'

\* C1 (as claimed, both halves): without where the first constraint covered
\* by the input columns is selected; in particular two successive upserts
\* that agree on a non-primary unique constraint leave one row with the
\* second call's values.
C1_InputConstraintUpserts ==
    /\ []C1_InputSelectsFirstCovered
    /\ [][\A r \in Slots : C1_Step(r)]_vars

\* the second half of C5: an upsert whose where carries an existing row's
\* values of the selected constraint, and whose input omits those columns,
\* adds no row; when it succeeds it has updated that row
C5_Step(r) ==
    LET q == reqs[r].req
        plan == reqs[r].plan
        cols == constraintColumnNames(table, plan.constraintName)
        whereOf(c) == q.where[camelCase(c)]
    IN  (/\ Finishes(r)
         /\ q.hasWhere
         /\ \A c \in cols : /\ camelCase(c) \in DOMAIN q.where
                            /\ column(AttributeNamed(table, c)) \notin DOMAIN q.input
         /\ RowsWith(cols, whereOf) # {})
        => /\ Cardinality(rows') = Cardinality(rows)
           /\ reqs'[r].pc = "done" =>
                \E old \in RowsWith(cols, whereOf) :
                    LET new == reqs'[r].data[1]
                    IN  /\ rows' = (rows \ {old}) \cup {new}
                        /\ \A c \in cols : new[c] = old[c]
                        /\ \A k \in 1..Len(plan.conflictUpdateArray) :
                             LET c == plan.conflictUpdateArray[k].column.names[1]
                             IN  new[c] = InsertValue(plan, c)

\* the first half of C5: an attribute with a value in where and none in
\* input is in the insert list with the where value
C5_WherePromoted ==
    \A r \in Slots :
        (Resolved(r) /\ reqs[r].plan.error = "none") =>
            \A a \in Range(table.attributes) :
                (/\ reqs[r].req.hasWhere
                 /\ camelCase(a.name) \in DOMAIN reqs[r].req.where
                 /\ column(a) \notin DOMAIN reqs[r].req.input)
                => /\ a.name \in Range(Names(reqs[r].plan.sqlColumns))
                   /\ InsertValue(reqs[r].plan, a.name) =
                        reqs[r].req.where[camelCase(a.name)]

\* C5: where values the input omits are promoted into the insert list, so
\* an upsert whose where names an existing row's unique-constraint values
\* and whose input omits them updates that row and inserts no second one.
C5_WhereValuesUpsert ==
    /\ []C5_WherePromoted
    /\ [][\A r \in Slots : C5_Step(r)]_vars

\* C5 witness: on a relation with unique (serial_number), after a first
\* upsert stored a row, an upsert with where {serialNumber} and input
\* {weight} has updated that row: one row, two sequence values drawn
C5_Witness ==
    \E r \in Slots :
        /\ table = Models
        /\ reqs[r].pc = "done"
        /\ DOMAIN reqs[r].req.where = {"serialNumber"}
        /\ DOMAIN reqs[r].req.input = {"weight"}
        /\ reqs[r].plan.constraintName = "bikes_serial_number_key"
        /\ Names(reqs[r].plan.sqlColumns) = <<"serial_number", "weight">>
        /\ rows = {reqs[r].data[1]}
        /\ reqs[r].data[1]["weight"] = reqs[r].req.input["weight"]
        /\ reqs[r].data[1]["id"] = 1
        /\ nextId = 3

\* the first half of C6: the conflict-update list is the insert list
\* without the columns that omit update, omit update-on-conflict or are
\* named in ignore
C6_UpdateList ==
    \A r \in Slots :
        (Resolved(r) /\ reqs[r].plan.error = "none") =>
            Assigned(reqs[r].plan.conflictUpdateArray) =
                SelectSeq(Names(reqs[r].plan.sqlColumns),
                          LAMBDA c : ~UpdateExcluded(AttributeNamed(table, c),
                                                     reqs[r].req))

\* the second half of C6: an upsert that updates a stored row leaves the
\* row's value of every column that omits update-on-conflict as it was
C6_Step(r) ==
    (/\ Finishes(r)
     /\ reqs'[r].pc = "done"
     /\ Cardinality(rows') = Cardinality(rows))
    => \E old \in rows :
          /\ rows' = (rows \ {old}) \cup {reqs'[r].data[1]}
          /\ \A a \in Range(table.attributes) :
                a.omitUpdateOnConflict =>
                    /\ a.name \in DOMAIN old <=> a.name \in DOMAIN reqs'[r].data[1]
                    /\ a.name \in DOMAIN old => reqs'[r].data[1][a.name] = old[a.name]

\* C6 (as claimed): the conflict-update list is exactly the inserted columns
\* that neither omit update, nor omit update-on-conflict, nor are named in
\* ignore; a column that omits update-on-conflict is never assigned and
\* keeps its stored value through a second upsert.
C6_ConflictUpdateColumns ==
    /\ []C6_UpdateList
    /\ [][\A r \in Slots : C6_Step(r)]_vars

-----------------------------------------------------------------------------
(* Claims about the statement *)

\* C11: the insert list is in the order of the attributes' positions in the
\* relation, whatever the order in which the keys of input and where were
\* written: positions increase along the list, and two requests with the
\* same input and where in different key orders have the same insert list.
C11_InsertListInDeclaredOrder ==
    /\ \A r \in Slots :
          (Resolved(r) /\ reqs[r].plan.error = "none") =>
              \A j, k \in 1..Len(reqs[r].plan.sqlColumns) :
                  j < k =>
                      AttributeNamed(table, reqs[r].plan.sqlColumns[j].names[1]).num
                        < AttributeNamed(table, reqs[r].plan.sqlColumns[k].names[1]).num
    /\ \A r1, r2 \in Slots :
          (/\ Resolved(r1) /\ Resolved(r2)
           /\ reqs[r1].req.hasWhere = reqs[r2].req.hasWhere
           /\ reqs[r1].req.where = reqs[r2].req.where
           /\ reqs[r1].req.input = reqs[r2].req.input)
          => InsertList(reqs[r1].plan) = InsertList(reqs[r2].plan)

\* C11 witness: the same input written as {weight, serialNumber} and as
\* {serialNumber, weight}; both insert (serial_number, weight)
C11_Witness ==
    \E r1, r2 \in Slots :
        /\ Resolved(r1) /\ Resolved(r2)
        /\ reqs[r1].req.inputKeys = <<"weight", "serialNumber">>
        /\ reqs[r2].req.inputKeys = <<"serialNumber", "weight">>
        /\ reqs[r1].req.input = reqs[r2].req.input
        /\ Names(reqs[r1].plan.sqlColumns) = <<"serial_number", "weight">>
        /\ Names(reqs[r2].plan.sqlColumns) = <<"serial_number", "weight">>

\* C12: the statement is "insert into <relation> default values returning *",
\* without column list and without conflict clause, exactly when no
\* attribute has a value in input or where; otherwise it has a column list,
\* as many values, "on conflict on constraint" with the resolved constraint,
\* and "returning *".
C12_StatementForm ==
    \A r \in Slots :
        (Resolved(r) /\ reqs[r].plan.error = "none") =>
            LET q == reqs[r].plan.mutationQuery
                empty == ExpectedInsert(table, reqs[r].req) = <<>>
            IN  /\ q.form \in {"values", "default values"}
                /\ q.form = "default values" <=> empty
                /\ q.into = <<table.namespace, table.name>>
                /\ q.returning = "*"
                /\ q.form = "default values" =>
                      /\ q.columns = <<>>
                      /\ q.values = <<>>
                      /\ q.onConflictOnConstraint = <<>>
                      /\ q.action = ""
                /\ q.form = "values" =>
                      /\ Len(q.columns) > 0
                      /\ Len(q.values) = Len(q.columns)
                      /\ q.onConflictOnConstraint = <<reqs[r].plan.constraintName>>
                      /\ \E c \in Range(table.constraints) :
                            c.name = reqs[r].plan.constraintName

\* C12 witness: an upsert without where and with an empty input ran as
\* "default values" and stored a row whose only value is the serial id
C12_Witness ==
    /\ reqs[1].pc = "done"
    /\ reqs[1].req.input = EmptyObject
    /\ reqs[1].plan.mutationQuery.form = "default values"
    /\ reqs[1].plan.constraintName = "bikes_pkey"
    /\ rows = {[c \in {"id"} |-> 1]}

-----------------------------------------------------------------------------
(* Claims about repeated upserts *)

\* the second of two upserts without where and with the same input, which
\* carries the primary-key value of a stored row, takes effect or fails
C13_Step(r1, r) ==
    LET q == reqs[r].req
        pk == constraintColumnNames(table, PrimaryKeyName(table))
        inputOf(c) == q.input[camelCase(c)]
        keyed == {row \in rows' :
                     \A c \in pk : c \in DOMAIN row /\ row[c] = inputOf(c)}
    IN  (/\ r1 # r
         /\ reqs[r1].pc = "done"
         /\ Finishes(r)
         /\ ~q.hasWhere /\ ~reqs[r1].req.hasWhere
         /\ reqs[r1].req.input = q.input
         /\ \A c \in pk : camelCase(c) \in DOMAIN q.input
         /\ RowsWith(pk, inputOf) # {})
        => /\ Cardinality(keyed) = 1
           /\ Cardinality(rows') = Cardinality(rows)
           /\ \A row \in keyed :
                /\ \A a \in Range(table.attributes) :
                      (column(a) \in DOMAIN q.input /\ ~UpdateExcluded(a, q))
                      => a.name \in DOMAIN row /\ row[a.name] = q.input[column(a)]
                /\ reqs'[r].pc = "done" => reqs'[r].data = <<row>>

Defaulted(tbl) == {a.name : a \in {b \in Range(tbl.attributes) : b.default.kind = "value"}}

\* the second of two upserts without where takes effect or fails; both gave
\* the same values for some member columns of a unique constraint and left
\* out its other member columns, which have a default
C14_Step(r1, r, con) ==
    LET q == reqs[r].req
        q1 == reqs[r1].req
        members == constraintColumnNames(table, con.name)
        given == {c \in members : camelCase(c) \in DOMAIN q.input}
        keyOf(c) == IF c \in given THEN q.input[camelCase(c)]
                    ELSE AttributeNamed(table, c).default.value
        keyed == {row \in rows' :
                     \A c \in members : c \in DOMAIN row /\ row[c] = keyOf(c)}
    IN  (/\ r1 # r
         /\ reqs[r1].pc = "done"
         /\ Finishes(r)
         /\ ~q.hasWhere /\ ~q1.hasWhere
         /\ con.type = "u"
         /\ given # {} /\ given # members
         /\ members \ given \subseteq Defaulted(table)
         /\ \A c \in members :
               /\ camelCase(c) \in DOMAIN q1.input <=> c \in given
               /\ c \in given => q1.input[camelCase(c)] = q.input[camelCase(c)]
         /\ RowsWith(members, keyOf) # {})
        => /\ Cardinality(keyed) = 1
           /\ Cardinality(rows') = Cardinality(rows)
           /\ \A row \in keyed :
                \A a \in Range(table.attributes) :
                    (/\ column(a) \in DOMAIN q.input
                     /\ a.name \notin members
                     /\ a.default.kind # "serial"
                     /\ ~UpdateExcluded(a, q))
                    => a.name \in DOMAIN row /\ row[a.name] = q.input[column(a)]

\* C14 (as claimed): two successive upserts without where that give the same
\* values for some member columns of a unique constraint and leave out
\* another member column, which takes its default both times, leave exactly
\* one row, holding the second call's non-key values (car (make, model)
\* twice, trim defaulting to 'standard': one row, active = true).
C14_DefaultedKeyColumnUpserts ==
    [][\A r1, r \in Slots : \A con \in Range(table.constraints) :
          C14_Step(r1, r, con)]_vars

\* an upsert without where takes effect or fails; its input covers the
\* unique constraint con, a stored row has the same value in some member
\* column of con, none has the same values in all, and none has the input's
\* primary-key value
C15_Step(r, con) ==
    LET q == reqs[r].req
        members == constraintColumnNames(table, con.name)
        pk == constraintColumnNames(table, PrimaryKeyName(table))
        inputOf(c) == q.input[camelCase(c)]
    IN  (/\ Finishes(r)
         /\ ~q.hasWhere
         /\ con.type = "u"
         /\ \A c \in members : camelCase(c) \in DOMAIN q.input
         /\ \E row \in rows : \E c \in members :
               c \in DOMAIN row /\ row[c] = inputOf(c)
         /\ RowsWith(members, inputOf) = {}
         /\ (\A c \in pk : camelCase(c) \in DOMAIN q.input)
               => RowsWith(pk, inputOf) = {})
        => /\ reqs'[r].pc = "done"
           /\ reqs'[r].data[1] \notin rows
           /\ rows' = rows \cup {reqs'[r].data[1]}
           /\ \A a \in Range(table.attributes) :
                column(a) \in DOMAIN q.input
                => /\ a.name \in DOMAIN reqs'[r].data[1]
                   /\ reqs'[r].data[1][a.name] = q.input[column(a)]

\* C15: upserts whose values differ in a member column of the unique
\* constraint are distinct rows: (make, trim = 'non-standard') after a stored
\* (make, trim = 'standard') inserts a second row and neither updates the
\* first nor conflicts with it.
C15_DifferentKeysAreDistinctRows ==
    [][\A r \in Slots : \A con \in Range(table.constraints) : C15_Step(r, con)]_vars

\* C15 witness: after an upsert of (make 0) stored trim 0 by default, an
\* upsert of (make 0, trim 1) has stored a second row
C15_Witness ==
    /\ reqs[1].pc = "done" /\ reqs[2].pc = "done"
    /\ reqs[1].req.input = [c \in {"make"} |-> 0]
    /\ reqs[2].req.input = [c \in {"make", "trim"} |-> IF c = "trim" THEN 1 ELSE 0]
    /\ rows = {reqs[1].data[1], reqs[2].data[1]}
    /\ reqs[1].data[1]["trim"] = 0
    /\ reqs[2].data[1]["trim"] = 1
    /\ Cardinality(rows) = 2

-----------------------------------------------------------------------------
(* Claims about numbers *)

\* the where argument of the request in slot r has weight written as 0.0
WhereWeightZero(r) ==
    /\ Resolved(r)
    /\ reqs[r].req.hasWhere
    /\ "weight" \in DOMAIN reqs[r].req.where
    /\ reqs[r].req.whereLiterals["weight"] = [digits |-> 0, point |-> TRUE]

\* a where value 0.0 counts toward covering a constraint, raises no
\* ValueMismatch against an input 0 or 0.0, and is inserted
C16_ZeroIsPresent ==
    \A r \in Slots :
        WhereWeightZero(r) =>
            LET q == reqs[r].req
                i == FirstCovered(table, DOMAIN q.where)
            IN  /\ i # 0 => /\ Selected(r)
                            /\ reqs[r].plan.constraintName = table.constraints[i].name
                /\ ("weight" \in DOMAIN q.input /\ q.inputLiterals["weight"].digits = 0)
                      => ~(reqs[r].plan.error = "ValueMismatch"
                           /\ reqs[r].plan.errorField = "weight")
                /\ reqs[r].plan.error = "none"
                      => /\ "weight" \in Range(Names(reqs[r].plan.sqlColumns))
                         /\ InsertValue(reqs[r].plan, "weight") = 0

\* the upsert with where weight 0.0 meets the stored row with weight 0: no
\* duplicate is inserted, the row is updated
C16_Step(r) ==
    LET q == reqs[r].req
        plan == reqs[r].plan
        cols == constraintColumnNames(table, plan.constraintName)
        whereOf(c) == q.where[camelCase(c)]
    IN  (/\ Finishes(r)
         /\ WhereWeightZero(r)
         /\ "weight" \in cols
         /\ \A c \in cols : camelCase(c) \in DOMAIN q.where
         /\ RowsWith(cols, whereOf) # {})
        => /\ Cardinality(rows') = Cardinality(rows)
           /\ reqs'[r].pc = "done"
           /\ reqs'[r].data[1] \in rows'
           /\ reqs'[r].data[1]["weight"] = 0

\* C16: a numeric zero is a present value and 0.0 equals 0: a where column
\* written 0.0 counts toward covering a constraint, raises no ValueMismatch
\* against an input 0 or 0.0 and is placed in the insert list, so the upsert
\* updates the stored row with weight 0.0 and inserts no duplicate.
C16_NumericZero ==
    /\ []C16_ZeroIsPresent
    /\ [][\A r \in Slots : C16_Step(r)]_vars

\* C16 witness: the test's request, where {weight: 0.0, serialNumber} with
\* input weight written 0, has updated the stored bike
C16_Witness ==
    /\ reqs[1].pc = "done"
    /\ WhereWeightZero(1)
    /\ DOMAIN reqs[1].req.where = {"serialNumber", "weight"}
    /\ "weight" \in DOMAIN reqs[1].req.input
    /\ reqs[1].req.inputLiterals["weight"] = [digits |-> 0, point |-> FALSE]
    /\ reqs[1].plan.constraintName = "serial_weight_unique"
    /\ rows = {StoredBike}
    /\ reqs[1].data = <<StoredBike>>

-----------------------------------------------------------------------------
(* Claims about the statement text *)

\* the identifiers the catalog snapshot holds for the relation
CatalogIdentifiers(tbl) ==
    {<<tbl.namespace, tbl.name>>}
    \cup {<<a.name>> : a \in Range(tbl.attributes)}
    \cup {<<c.name>> : c \in Range(tbl.constraints)}

\* the statement of slot r was built
Built(r) == Resolved(r) /\ reqs[r].plan.error = "none"

\* C17: values are bound as parameters and never interpolated: requests on
\* the same catalog with the same where keys, input keys and ignore columns
\* have the same statement text whatever their values, only the parameter
\* list differs; every identifier of the text is a quoted catalog identifier.
C17_ValuesAreParameters ==
    /\ \A r \in Slots :
          Built(r) =>
              LET c == compile(reqs[r].plan.mutationQuery)
                  expected == ExpectedInsert(table, reqs[r].req)
              IN  /\ \A k \in 1..Len(c.text) :
                        \/ "keyword" \in DOMAIN c.text[k]
                        \/ /\ "quoted" \in DOMAIN c.text[k]
                           /\ c.text[k].quoted \in CatalogIdentifiers(table)
                        \/ /\ "placeholder" \in DOMAIN c.text[k]
                           /\ c.text[k].placeholder \in 1..Len(c.values)
                  /\ c.values = [k \in 1..Len(expected) |-> expected[k][2]]
    /\ \A r1, r2 \in Slots :
          (/\ Built(r1) /\ Built(r2)
           /\ reqs[r1].req.hasWhere = reqs[r2].req.hasWhere
           /\ DOMAIN reqs[r1].req.where = DOMAIN reqs[r2].req.where
           /\ DOMAIN reqs[r1].req.input = DOMAIN reqs[r2].req.input
           /\ reqs[r1].req.ignore = reqs[r2].req.ignore
           /\ reqs[r1].req.ignoreFlags = reqs[r2].req.ignoreFlags)
          => compile(reqs[r1].plan.mutationQuery).text =
                compile(reqs[r2].plan.mutationQuery).text

\* C17 witness: two statements built for input {serialNumber, weight} with
\* different weights: the same text, different parameter lists
C17_Witness ==
    /\ Built(1) /\ Built(2)
    /\ DOMAIN reqs[1].req.input = {"serialNumber", "weight"}
    /\ DOMAIN reqs[2].req.input = {"serialNumber", "weight"}
    /\ reqs[1].req.input["weight"] # reqs[2].req.input["weight"]
    /\ compile(reqs[1].plan.mutationQuery).text = compile(reqs[2].plan.mutationQuery).text
    /\ compile(reqs[1].plan.mutationQuery).values = <<0, 0>>
    /\ compile(reqs[2].plan.mutationQuery).values = <<0, 1>>

-----------------------------------------------------------------------------
(* Claims about failures and about requests side by side *)

\* the errors resolve() throws before it has a statement
LocalFailures == {"NoMatchingConstraint", "ValueMismatch", "AssertionError", "TypeError"}

\* C18: a request that fails locally (no matching constraint, value
\* mismatch, or a constraint member missing from the catalog) never reaches
\* the execution adapter: no statement is executed for it and the stored
\* rows are not changed by it.
C18_LocalFailureExecutesNothing ==
    /\ [](\A r \in Slots :
            (Resolved(r) /\ reqs[r].plan.error \in LocalFailures)
            => /\ reqs[r].executions = 0
               /\ reqs[r].pc = "failed"
               /\ reqs[r].error = reqs[r].plan.error
               /\ reqs[r].data = <<>>
               /\ reqs[r].plan.mutationQuery = NoQuery)
    /\ [][\A r \in Slots :
            (reqs'[r] # reqs[r] /\ reqs'[r].plan.error \in LocalFailures)
            => /\ rows' = rows
               /\ nextId' = nextId
               /\ reqs'[r].pc \in {"failed", "idle"}]_vars

\* C18 witness: a request failed with ValueMismatch after its constraint
\* was resolved; nothing was executed
C18_Witness ==
    /\ reqs[1].pc = "failed"
    /\ reqs[1].plan.error = "ValueMismatch"
    /\ reqs[1].plan.constraintName = "serial_weight_unique"
    /\ reqs[1].executions = 0
    /\ rows = {}

\* C19: the engine keeps no state across requests: for the catalog
\* snapshot, the constraint, insert list, conflict-update list and statement
\* (or the error) of a request are those its own arguments determine,
\* whatever requests were processed before it or are suspended at the
\* execution call beside it, and no step of another request changes them.
C19_NoCrossRequestState ==
    /\ [](\A r \in Slots :
            Resolved(r) => reqs[r].plan = resolvePlan(impl, table, reqs[r].req))
    /\ [](\A r1, r2 \in Slots :
            (Resolved(r1) /\ Resolved(r2) /\ reqs[r1].req = reqs[r2].req)
            => reqs[r1].plan = reqs[r2].plan)
    /\ [][\A r \in Slots :
            (Resolved(r) /\ reqs'[r].pc # "idle")
            => /\ reqs'[r].req = reqs[r].req
               /\ reqs'[r].plan = reqs[r].plan]_vars

\* C19 witness: two different requests suspended at the execution call
\* together, the second resolved while the first was waiting, each with its
\* own insert list
C19_Witness ==
    /\ reqs[1].pc = "awaiting" /\ reqs[2].pc = "awaiting"
    /\ Names(reqs[1].plan.sqlColumns) = <<"id", "weight">>
    /\ Names(reqs[2].plan.sqlColumns) = <<"serial_number">>
    /\ reqs[1].plan.constraintName # reqs[2].plan.constraintName

\* the six conditions of the table filter
Filtered(c) ==
    /\ c.namespace
    /\ c.primaryKeyConstraint
    /\ ~c.omitUpsert
    /\ c.isSelectable
    /\ c.isInsertable
    /\ c.isUpdatable

\* the classes of the introspection
SchemaClasses == {schema.classes[k] : k \in 1..Len(schema.classes)}

\* C20 as stated: once the fields hook has run, a relation has an upsert
\* mutation if and only if it has a namespace and a primary key, does not
\* omit upsert, and is selectable, insertable and updatable
C20_MutationIffFiltered ==
    schema.phase = "fields" =>
        \A c \in SchemaClasses : upsertFnName(c) \in schema.fields <=> Filtered(c)

\* C20 amended: in a schema build that completes, a relation has an upsert
\* mutation if and only if it passes the six conditions and its GraphQL
\* object type and input type both exist; a table without a primary key
\* never gets an upsert mutation
C20_MutationIffFilteredAndTyped ==
    /\ schema.phase = "fields" =>
          \A c \in SchemaClasses :
              upsertFnName(c) \in schema.fields
                  <=> (Filtered(c) /\ c.gqlTable /\ c.gqlTableInput)
    /\ \A c \in SchemaClasses :
          ~c.primaryKeyConstraint => upsertFnName(c) \notin schema.fields

\* the fields hook has run on a table that lacks only a primary key: bikes
\* has its mutation and the table has none
C20_Witness ==
    /\ schema.phase = "fields"
    /\ calls = 0
    /\ Len(schema.classes) = 2
    /\ schema.classes[1] =
          PgClass("things", TRUE, FALSE, FALSE, TRUE, TRUE, TRUE, TRUE, TRUE, TRUE)
    /\ schema.fields = {"upsertBike"}

C22_DiagnosticListsInputColumns ==
    \A r \in Slots :
        (Resolved(r) /\ reqs[r].plan.error = "NoMatchingConstraint")
        => reqs[r].plan.errorColumns = DOMAIN reqs[r].req.input

\* the member field names of the constraints none of whose members omits read
ReadableKeyFields(tbl) ==
    UNION {memberFields(tbl, i) :
             i \in {k \in 1..Len(tbl.constraints) :
                      \A c \in constraintColumnNames(tbl, tbl.constraints[k].name) :
                          ~AttributeNamed(tbl, c).omitRead}}

\* C23: the schema build completes whatever the order of the constraints,
\* and the keys where accepts are the member columns of the constraints
\* none of whose members omits read: an unreadable constraint adds no key
\* and takes none away.
C23_WhereKeysOfReadableConstraints ==
    /\ schema.phase # "failed"
    /\ schema.phase = "fields" => schema.whereType.fields = ReadableKeyFields(table)

\* the errors the execution adapter raises
AdapterErrors == {"UniqueViolation", "SyntaxError", "ConnectionError"}

\* the request in slot r passed resolve and reconcile
Planned(r) == Resolved(r) /\ reqs[r].plan.error = "none"

\* what C24 says of the step in which the adapter settles the request of
\* slot r: the statement run is the one built, it was handed over once, a
\* failure is the adapter's own error, a success returns the first row and
\* the request's clientMutationId
C24_Step(r) ==
    Finishes(r) =>
        LET out == executeQuery(table, reqs[r].plan.mutationQuery, rows, nextId)
        IN  /\ reqs'[r].executions = 1
            /\ reqs'[r].pc = "failed" =>
                  /\ reqs'[r].error \in ({out.error, "ConnectionError"} \ {"none"})
                  /\ reqs'[r].clientMutationId = Undefined
            /\ reqs'[r].pc = "done" =>
                  /\ out.error = "none"
                  /\ rows' = out.rows
                  /\ reqs'[r].data = <<out.returned[1]>>
                  /\ reqs'[r].clientMutationId = inputClientMutationId(reqs[r].req)

\* C24: a request that passed resolve and reconcile has handed its statement
\* to the execution adapter exactly once; when the adapter fails, the
\* request fails with the adapter's error and is not attempted again; when
\* it succeeds, the response is the first returned row and the request's
\* clientMutationId as it came.
C24_ExecutedOnce ==
    /\ [](\A r \in Slots :
            /\ Planned(r) => reqs[r].executions = 1
            /\ (Planned(r) /\ reqs[r].pc = "failed") => reqs[r].error \in AdapterErrors
            /\ reqs[r].pc = "done" =>
                  /\ Len(reqs[r].data) = 1
                  /\ reqs[r].clientMutationId = inputClientMutationId(reqs[r].req))
    /\ [][\A r \in Slots :
            /\ C24_Step(r)
            /\ (Planned(r) /\ reqs[r].pc = "failed") => reqs'[r] = reqs[r]]_vars

\* C24 witness: a request with the token "a" has run once against the
\* stored bike and come back with the row it updated and with the token
C24_Witness ==
    /\ rows # {}
    /\ reqs[1].pc = "done"
    /\ reqs[1].executions = 1
    /\ reqs[1].req.input # EmptyObject
    /\ reqs[1].clientMutationId = [string |-> "a"]
    /\ rows = {StoredBike}
    /\ reqs[1].data = <<StoredBike>>

\* the constraint of the request in slot r was found by the search over the
\* where keys or over the input's columns, not by the primary-key fallback
MatchedByKeys(r) ==
    /\ Selected(r)
    /\ \/ reqs[r].req.hasWhere
       \/ /\ impl = "part"
          /\ findCovered(columnsByConstraintName(table), DOMAIN reqs[r].req.input) # 0
       \/ /\ impl = "ts"
          /\ tsFind(constraintColumns(table), 1, reqs[r].req,
                    upsertedColumns(table, reqs[r].req)) > 0

\* C25: when the constraint was selected by matching and reconcile
\* succeeded, every member column of the selected constraint is in the
\* insert column list of the statement.
C25_TargetColumnsInserted ==
    \A r \in Slots :
        (MatchedByKeys(r) /\ reqs[r].plan.error = "none")
        => constraintColumnNames(table, reqs[r].plan.constraintName)
              \subseteq Range(Names(reqs[r].plan.mutationQuery.columns))

\* C25 witness: the input names serial_number and weight and nothing else,
\* the two-column unique constraint is selected for it although the primary
\* key is listed first, and both columns are inserted
C25_Witness ==
    /\ table = Bikes
    /\ Resolved(1)
    /\ ~reqs[1].req.hasWhere
    /\ MatchedByKeys(1)
    /\ reqs[1].plan.error = "none"
    /\ reqs[1].plan.constraintName = "serial_weight_unique"
    /\ Names(reqs[1].plan.mutationQuery.columns) = <<"serial_number", "weight">>

\* the outcome of resolve() as far as C26 compares it: the kind of error,
\* or the constraint, the insert list and the conflict-update list
Outcome(plan) ==
    IF plan.error # "none" THEN <<plan.error>>
    ELSE <<"none", plan.constraintName, InsertList(plan),
           Assigned(plan.conflictUpdateArray)>>

\* the request carries no ignore argument
NoIgnore(req) == req.ignore = {} /\ req.ignoreFlags = EmptyObject

\* no attribute of the relation omits update
NoOmitUpdate(tbl) == \A a \in Range(tbl.attributes) : ~a.omitUpdate

\* C26: on a catalog without omit-update attributes, a request without ignore
\* has the same outcome in the two implementations: the same constraint,
\* insert list and conflict-update list, or the same kind of error.
C26_ImplementationsAgree ==
    \A r \in Slots :
        (Resolved(r) /\ NoIgnore(reqs[r].req) /\ NoOmitUpdate(table))
        => /\ reqs[r].plan = resolvePlan(impl, table, reqs[r].req)
           /\ Outcome(resolvePlan("part", table, reqs[r].req))
                = Outcome(resolvePlan("ts", table, reqs[r].req))

\* the search of resolve() finds no constraint for the request
Unresolvable(tbl, im, req) == matchIndex(im, tbl, req) = 0

\* the positions, in the relation's attribute list, of the attributes on
\* which where and input disagree
DisagreeingPositions(tbl, req) ==
    {i \in 1..Len(tbl.attributes) : tbl.attributes[i] \in Disagreeing(tbl, req)}

\* C27: a request for which no constraint can be resolved fails with
\* NoMatchingConstraint also when where and input disagree on a column; a
\* ValueMismatch is only raised once a constraint is selected, and it names
\* the first attribute, in the relation's attribute order, on which where
\* and input disagree.
C27_ResolutionBeforeReconcile ==
    \A r \in Slots :
        Resolved(r) =>
            /\ (Unresolvable(table, impl, reqs[r].req)
                  /\ Disagreeing(table, reqs[r].req) # {})
               => reqs[r].plan.error = "NoMatchingConstraint"
            /\ reqs[r].plan.error = "ValueMismatch"
               => /\ Selected(r)
                  /\ DisagreeingPositions(table, reqs[r].req) # {}
                  /\ reqs[r].plan.errorField =
                       column(table.attributes[
                           Min(DisagreeingPositions(table, reqs[r].req))])

\* C27 witness: where names serial_number only, which covers no constraint
\* of bikes, the input gives serial_number another value, and the request
\* has failed with NoMatchingConstraint
C27_Witness ==
    /\ table = Bikes
    /\ Resolved(1)
    /\ DOMAIN reqs[1].req.where = {"serialNumber"}
    /\ Disagreeing(table, reqs[1].req) # {}
    /\ reqs[1].plan.error = "NoMatchingConstraint"
    /\ reqs[1].pc = "failed"
    /\ reqs[1].executions = 0

=============================================================================
